---- MODULE Spec2Model ----
\* Logux server: registries of connected clients, authentication with the
\* bruteforce guard and zombie eviction, the fan-out of actions (sendAction)
\* and the action pipeline of the `add` event (resend, process, subscribe).
EXTENDS Integers, Sequences, FiniteSets, TLC

\* ---------------------------------------------------------------- bounds
\* connections accepted while the bruteforce guard is examined
MaxAuthClients == 4
\* connections accepted in the other specifications
MaxClients == 2
\* entries added to the log from outside (server.log.add / client sync)
MaxActions == 2
\* explicit client.destroy() calls on an already destroyed client
MaxRedestroy == 1
\* the denials reported to one connection
MaxDenied == 1

\* ---------------------------------------------------------------- program constants
\* isBruteforce: attempts >= 3
BruteforceLimit == 3

\* ---------------------------------------------------------------- universe
\* A node ID is the sequence of its ':'-separated segments:
\* "10:c:a" is <<"10", "c", "a">>.
ServerNode == <<"server", "x">>
NodeA == <<"10", "c", "a">>
NodeB == <<"10", "c", "b">>
NodeD == <<"20", "d">>
ClientNodes == {NodeA, NodeB, NodeD}
Undefined == <<>>
IPs == {"ip1", "ip2"}
Channels == {"ch1", "ch2"}

\* parseId(nodeId) of @logux/core: clientId is the first two segments,
\* userId the first one when there are at least two segments.
parseId(n) ==
  [nodeId |-> n,
   clientId |-> IF Len(n) >= 2 THEN SubSeq(n, 1, 2) ELSE n,
   userId |-> IF Len(n) >= 2 THEN n[1] ELSE "undefined"]

\* an action ID "<counter> <nodeId> <seq>" is <<counter, nodeId>>
idNode(id) == id[2]

VARIABLES
  clients,        \* key -> Client object (sequence, key = index); the field
                  \* reports holds the reporter calls about that connection
  connected,      \* app.connected / app.clients: set of keys
  nodeIds,        \* app.nodeIds: nodeId -> key
  clientIds,      \* app.clientIds: clientId -> key
  userIds,        \* app.userIds: userId -> sequence of keys
  subscribers,    \* app.subscribers: channel -> (nodeId -> filter)
  authAttempts,   \* app.authAttempts: ip -> count (absent key: not in DOMAIN)
  timeouts,       \* app.timeouts: pending decay timers, ip -> number pending
  reported,       \* the reporter calls of the latest handler run, in order
  destroying,     \* app.destroying
  redestroyed,    \* explicit destroy() calls made on destroyed clients
  log,            \* app.log: the entries in the order of log.add, each with
                  \* the position of its handler and the trace of its events
  processing,     \* app.processing
  destroyed,      \* promise of app.destroy(): "none", "waiting", "resolved"
  otherProcessor, \* app.otherProcessor: the otherType() callbacks or NoProcessor
  otherSubscriber, \* app.otherSubscriber: the otherChannel() callbacks or NoProcessor
  proxy           \* bindBackendProxy: meta.id -> the entry of its `processing`
                  \* map and the positions of the request and the callbacks

pipeline == <<log, processing, destroyed, otherProcessor, otherSubscriber, proxy>>
vars == <<clients, connected, nodeIds, clientIds, userIds, subscribers,
          authAttempts, timeouts, reported, destroying, redestroyed,
          log, processing, destroyed, otherProcessor, otherSubscriber, proxy>>

Report(name, key, node, id) == [name |-> name, key |-> key, node |-> node, id |-> id]

\* f without key k
Without(f, k) == [x \in DOMAIN f \ {k} |-> f[x]]
\* f with key k set to v
With(f, k, v) == [x \in DOMAIN f \cup {k} |-> IF x = k THEN v ELSE f[x]]
Get(f, k, default) == IF k \in DOMAIN f THEN f[k] ELSE default

RECURSIVE SeqWithout(_, _)
SeqWithout(s, x) ==
  IF s = <<>> THEN <<>>
  ELSE IF Head(s) = x THEN SeqWithout(Tail(s), x)
       ELSE <<Head(s)>> \o SeqWithout(Tail(s), x)

Count(s, x) == Cardinality({i \in 1..Len(s) : s[i] = x})

\* ---------------------------------------------------------------- processors
\* The callbacks of a type() / otherType() registration beside access.
Processor(resend, process, finally) ==
  [resend |-> resend, process |-> process, finally |-> finally]
NoProcessor == [none |-> TRUE]

\* ---------------------------------------------------------------- server client
\* The registry part of the server state, passed through the operators below;
\* reported collects the reporter calls of the running handler.
World ==
  [clients |-> clients, connected |-> connected, nodeIds |-> nodeIds,
   clientIds |-> clientIds, userIds |-> userIds, subscribers |-> subscribers,
   reported |-> <<>>, log |-> log, processing |-> processing, destroyed |-> destroyed]

NewClient(ip) ==
  [ip |-> ip, nodeId |-> Undefined, clientId |-> Undefined, userId |-> "undefined",
   connected |-> TRUE, destroyed |-> FALSE, zombie |-> FALSE, auth |-> "none",
   reports |-> <<"connect">>, onAdd |-> <<>>]

\* app.reporter(name, ...) about connection k
report(w, name, k) ==
  [w EXCEPT !.clients[k].reports = Append(@, name),
            !.reported = Append(@, Report(name, k, w.clients[k].nodeId, <<>>))]

\* Every channel loses the entry of nodeId; a channel left without
\* subscribers loses its key.
pruneSubscribers(subs, nodeId) ==
  LET keep == {ch \in DOMAIN subs : DOMAIN subs[ch] \ {nodeId} # {}
                                     \/ nodeId \notin DOMAIN subs[ch]}
  IN [ch \in keep |-> Without(subs[ch], nodeId)]

\* The client leaves clientIds and userIds.
removeFromIndexes(w, k) ==
  LET c == w.clients[k]
      users == Get(w.userIds, c.userId, <<>>)
      left == SeqWithout(users, k)
  IN [w EXCEPT
        !.clientIds = IF Get(w.clientIds, c.clientId, 0) = k
                      THEN Without(w.clientIds, c.clientId) ELSE w.clientIds,
        !.userIds = IF c.userId \notin DOMAIN w.userIds THEN w.userIds
                    ELSE IF left = <<>> THEN Without(w.userIds, c.userId)
                    ELSE With(w.userIds, c.userId, left)]

\* destroy that reports the disconnect also while the server is destroying
destroyReporting(w, k, isDestroying) ==
  LET c == w.clients[k]
      w0 == [w EXCEPT !.clients[k].destroyed = TRUE]
      w1 == IF ~c.zombie THEN report(w0, "disconnect", k) ELSE w0
      w2 == [w1 EXCEPT !.clients[k].connected = FALSE]
      w3 == [w2 EXCEPT
               !.nodeIds = IF c.nodeId # Undefined THEN Without(w2.nodeIds, c.nodeId)
                           ELSE w2.nodeIds,
               !.connected = w2.connected \ {k}]
      w4 == removeFromIndexes(w3, k)
  IN [w4 EXCEPT !.subscribers = IF c.nodeId # Undefined
                                THEN pruneSubscribers(w4.subscribers, c.nodeId)
                                ELSE w4.subscribers]

\* Client.destroy()
destroy(w, k, isDestroying) ==
  LET c == w.clients[k]
      w0 == [w EXCEPT !.clients[k].destroyed = TRUE]
      w1 == IF ~isDestroying /\ ~c.zombie THEN report(w0, "disconnect", k) ELSE w0
      w2 == [w1 EXCEPT !.clients[k].connected = FALSE]
      w3 == [w2 EXCEPT
               !.nodeIds = IF c.nodeId # Undefined THEN Without(w2.nodeIds, c.nodeId)
                           ELSE w2.nodeIds,
               !.connected = w2.connected \ {k}]
      w4 == removeFromIndexes(w3, k)
  IN [w4 EXCEPT !.subscribers = IF c.nodeId # Undefined
                                THEN pruneSubscribers(w4.subscribers, c.nodeId)
                                ELSE w4.subscribers]

\* isBruteforce that lets the third failure pass
isBruteforceAbove(ip) == ip \in DOMAIN authAttempts /\ authAttempts[ip] > BruteforceLimit

\* BaseServer.isBruteforce(ip)
isBruteforce(ip) == ip \in DOMAIN authAttempts /\ authAttempts[ip] >= BruteforceLimit

\* authenticated that destroys the earlier connection without the zombie flag
authenticatedNoFlag(w, k, isDestroying) ==
  LET c == w.clients[k]
      zombie == Get(w.nodeIds, c.nodeId, 0)
      w1 == IF zombie # 0 THEN destroy(report(w, "zombie", zombie), zombie, isDestroying)
            ELSE w
      w2 == [w1 EXCEPT
               !.nodeIds = With(w1.nodeIds, c.nodeId, k),
               !.clientIds = With(w1.clientIds, c.clientId, k),
               !.userIds = IF c.userId = "undefined" THEN w1.userIds
                           ELSE With(w1.userIds, c.userId,
                                     Append(Get(w1.userIds, c.userId, <<>>), k))]
  IN report([w2 EXCEPT !.clients[k].auth = "ok"], "authenticated", k)

\* Client.auth after the authenticator resolved true for client k
authenticated(w, k, isDestroying) ==
  LET c == w.clients[k]
      zombie == Get(w.nodeIds, c.nodeId, 0)
      w1 == IF zombie # 0
            THEN destroy(report([w EXCEPT !.clients[zombie].zombie = TRUE],
                                "zombie", zombie),
                         zombie, isDestroying)
            ELSE w
      w2 == [w1 EXCEPT
               !.nodeIds = With(w1.nodeIds, c.nodeId, k),
               !.clientIds = With(w1.clientIds, c.clientId, k),
               !.userIds = IF c.userId = "undefined" THEN w1.userIds
                           ELSE With(w1.userIds, c.userId,
                                     Append(Get(w1.userIds, c.userId, <<>>), k))]
  IN report([w2 EXCEPT !.clients[k].auth = "ok"], "authenticated", k)

SetWorld(w) ==
  /\ clients' = w.clients
  /\ connected' = w.connected
  /\ nodeIds' = w.nodeIds
  /\ clientIds' = w.clientIds
  /\ userIds' = w.userIds
  /\ subscribers' = w.subscribers
  /\ reported' = w.reported
  /\ log' = w.log
  /\ processing' = w.processing
  /\ destroyed' = w.destroyed

\* BaseServer.addClient(connection): a peer connects from ip
addClient(ip, limit) ==
  /\ Len(clients) < limit
  /\ ~destroying
  /\ clients' = Append(clients, NewClient(ip))
  /\ connected' = connected \cup {Len(clients) + 1}
  /\ reported' = <<Report("connect", Len(clients) + 1, Undefined, <<>>)>>
  /\ UNCHANGED <<nodeIds, clientIds, userIds, subscribers, authAttempts, timeouts,
                 destroying, redestroyed, pipeline>>

\* BaseServer.rememberBadAuth(ip): the counter and its decay timer
rememberBadAuth(ip) ==
  /\ authAttempts' = With(authAttempts, ip, Get(authAttempts, ip, 0) + 1)
  /\ timeouts' = [timeouts EXCEPT ![ip] = @ + 1]

\* Client.auth(credentials, nodeId) up to the call of the authenticator
auth(k, n) ==
  /\ k \in 1..Len(clients)
  /\ clients[k].auth = "none"
  /\ clients[k].connected
  /\ LET p == parseId(n)
         w == [World EXCEPT !.clients[k].nodeId = n, !.clients[k].clientId = p.clientId,
                            !.clients[k].userId = p.userId]
     IN IF isBruteforce(clients[k].ip)
        THEN SetWorld(report([w EXCEPT !.clients[k].auth = "bruteforce"],
                             "clientError", k))
        ELSE IF p.userId = "server"
        THEN SetWorld(report([w EXCEPT !.clients[k].auth = "denied"],
                             "unauthenticated", k))
        ELSE SetWorld([w EXCEPT !.clients[k].auth = "pending"])
  /\ UNCHANGED <<authAttempts, timeouts, destroying, redestroyed, otherProcessor, otherSubscriber, proxy>>

\* Client.auth(credentials, nodeId) of client.js up to the call of the
\* authenticator: the node ID and its user are stored, nothing is examined
clientAuth(k, n) ==
  /\ k \in 1..Len(clients)
  /\ clients[k].auth = "none"
  /\ clients[k].connected
  /\ LET p == parseId(n)
     IN SetWorld([World EXCEPT !.clients[k].nodeId = n, !.clients[k].clientId = p.clientId,
                               !.clients[k].userId = p.userId, !.clients[k].auth = "pending"])
  /\ UNCHANGED <<authAttempts, timeouts, destroying, redestroyed, otherProcessor, otherSubscriber, proxy>>

\* the authenticator's promise resolves true
authResolved(k) ==
  /\ k \in 1..Len(clients)
  /\ clients[k].auth = "pending"
  /\ SetWorld(authenticated(World, k, destroying))
  /\ UNCHANGED <<authAttempts, timeouts, destroying, redestroyed, otherProcessor, otherSubscriber, proxy>>

\* the authenticator's promise resolves false
authDenied(k) ==
  /\ k \in 1..Len(clients)
  /\ clients[k].auth = "pending"
  /\ rememberBadAuth(clients[k].ip)
  /\ SetWorld(report([World EXCEPT !.clients[k].auth = "denied"], "unauthenticated", k))
  /\ UNCHANGED <<destroying, redestroyed, otherProcessor, otherSubscriber, proxy>>

\* a decay timer that leaves the key with the count zero
badAuthTimeoutKeepKey(ip) ==
  /\ timeouts[ip] > 0
  /\ timeouts' = [timeouts EXCEPT ![ip] = @ - 1]
  /\ authAttempts' = With(authAttempts, ip, Get(authAttempts, ip, 0) - 1)
  /\ reported' = <<>>
  /\ UNCHANGED <<clients, connected, nodeIds, clientIds, userIds, subscribers,
                 destroying, redestroyed, pipeline>>

\* the decay timer of rememberBadAuth fires after 3 seconds
badAuthTimeout(ip) ==
  /\ timeouts[ip] > 0
  /\ timeouts' = [timeouts EXCEPT ![ip] = @ - 1]
  /\ authAttempts' = IF Get(authAttempts, ip, 0) = 1 THEN Without(authAttempts, ip)
                     ELSE With(authAttempts, ip, Get(authAttempts, ip, 0) - 1)
  /\ reported' = <<>>
  /\ UNCHANGED <<clients, connected, nodeIds, clientIds, userIds, subscribers,
                 destroying, redestroyed, pipeline>>

\* the transport closes: the listener of the sync `state` event
stateListener(k) ==
  /\ k \in 1..Len(clients)
  /\ clients[k].connected
  /\ ~clients[k].destroyed
  /\ SetWorld(destroy([World EXCEPT !.clients[k].connected = FALSE], k, destroying))
  /\ UNCHANGED <<authAttempts, timeouts, destroying, redestroyed, otherProcessor, otherSubscriber, proxy>>

\* client.destroy() called by the application, also on a destroyed client
clientDestroy(k) ==
  /\ k \in 1..Len(clients)
  /\ IF clients[k].destroyed
     THEN redestroyed < MaxRedestroy /\ redestroyed' = redestroyed + 1
     ELSE UNCHANGED redestroyed
  /\ SetWorld(destroy(World, k, destroying))
  /\ UNCHANGED <<authAttempts, timeouts, destroying, otherProcessor, otherSubscriber, proxy>>

RECURSIVE destroyAll(_, _)
destroyAll(w, keys) ==
  IF keys = {} THEN w
  ELSE LET k == CHOOSE x \in keys : \A y \in keys : x <= y
       IN destroyAll(destroy(w, k, TRUE), keys \ {k})

\* BaseServer.destroy(): the flag, the report and the unbind callbacks
serverDestroy ==
  /\ ~destroying
  /\ destroying' = TRUE
  /\ SetWorld(destroyAll([World EXCEPT
                            !.reported = <<Report("destroy", 0, Undefined, <<>>)>>,
                            !.destroyed = IF processing = 0 THEN "resolved"
                                          ELSE "waiting"],
                         connected))
  /\ timeouts' = [ip \in IPs |-> 0]
  /\ UNCHANGED <<authAttempts, redestroyed, otherProcessor, otherSubscriber, proxy>>

\* ---------------------------------------------------------------- tables
\* app.types: the exact types registered by type(name, callbacks)
types ==
  [A |-> Processor(FALSE, TRUE, FALSE),
   B |-> Processor(TRUE, TRUE, TRUE),
   C |-> Processor(FALSE, FALSE, FALSE)]

\* app.regexTypes: the types registered with a regular expression, in
\* registration order; matches is the set of type names the expression matches
regexTypes == << [matches |-> {"R1"}, callbacks |-> Processor(FALSE, FALSE, TRUE)] >>

\* the other callbacks a server may register with otherType()
OtherProcessors == {NoProcessor, Processor(FALSE, TRUE, TRUE)}

\* app.channels: the definitions of channel(pattern, callbacks), in
\* registration order; matches is the set of names the pattern matches
channels ==
  << [matches |-> {"ch1"}, filter |-> FALSE, load |-> FALSE, finally |-> FALSE],
     [matches |-> {"ch1", "ch2"}, filter |-> TRUE, load |-> TRUE, finally |-> TRUE] >>

\* an action.channel that is not a string
NotString == "#notString"
\* action types a stored filter function accepts
FilterAccepts == {"A", "C"}

IsLogux(type) ==
  type \in {"logux/subscribe", "logux/unsubscribe", "logux/undo", "logux/processed"}

\* BaseServer.getRegexProcessor(type)
getRegexProcessor(type) ==
  LET hits == {i \in 1..Len(regexTypes) : type \in regexTypes[i].matches}
  IN IF hits = {} THEN NoProcessor
     ELSE regexTypes[CHOOSE i \in hits : \A j \in hits : i <= j].callbacks

\* BaseServer.getProcessor(type)
getProcessor(type, other) ==
  IF type \in DOMAIN types THEN types[type]
  ELSE IF Len(regexTypes) > 0
  THEN (IF getRegexProcessor(type) # NoProcessor THEN getRegexProcessor(type) ELSE other)
  ELSE other

\* ---------------------------------------------------------------- fan-out
\* send that does not look at the set of served clients
sendAgain(acc, k) ==
  [seen |-> acc.seen \cup {acc.w.clients[k].clientId},
   w |-> [acc.w EXCEPT !.clients[k].onAdd = Append(@, acc.id)],
   id |-> acc.id]

\* the closure send of sendAction; acc.seen is the set `clients`
send(acc, k) ==
  LET cid == acc.w.clients[k].clientId
  IN IF cid \in acc.seen THEN acc
     ELSE [seen |-> acc.seen \cup {cid},
           w |-> [acc.w EXCEPT !.clients[k].onAdd = Append(@, acc.id)],
           id |-> acc.id]

RECURSIVE sendNodes(_, _, _)
sendNodes(acc, from, ids) ==
  IF ids = <<>> THEN acc
  ELSE LET k == Get(acc.w.nodeIds, Head(ids), 0)
       IN sendNodes(IF k # 0 /\ acc.w.clients[k].clientId # from THEN send(acc, k)
                    ELSE acc,
                    from, Tail(ids))

RECURSIVE sendClients(_, _, _)
sendClients(acc, from, ids) ==
  IF ids = <<>> THEN acc
  ELSE sendClients(IF Head(ids) \in DOMAIN acc.w.clientIds /\ Head(ids) # from
                   THEN send(acc, acc.w.clientIds[Head(ids)])
                   ELSE acc,
                   from, Tail(ids))

RECURSIVE sendUser(_, _, _)
sendUser(acc, from, keys) ==
  IF keys = <<>> THEN acc
  ELSE sendUser(IF acc.w.clients[Head(keys)].clientId # from THEN send(acc, Head(keys))
                ELSE acc,
                from, Tail(keys))

RECURSIVE sendUsers(_, _, _)
sendUsers(acc, from, ids) ==
  IF ids = <<>> THEN acc
  ELSE sendUsers(sendUser(acc, from, Get(acc.w.userIds, Head(ids), <<>>)),
                 from, Tail(ids))

\* the value of a stored filter for an action of the given type
evalFilter(filter, type) ==
  filter = "true" \/ (filter = "fn" /\ type \in FilterAccepts)

\* the node IDs in the order the subscribers of a channel are visited
NodeOrder == <<NodeA, NodeB, NodeD, ServerNode>>

RECURSIVE sendChannel(_, _, _, _)
sendChannel(acc, type, subs, n) ==
  IF n > Len(NodeOrder) THEN acc
  ELSE LET nodeId == NodeOrder[n]
           cid == parseId(nodeId).clientId
           k == Get(acc.w.clientIds, cid, 0)
       IN sendChannel(
            IF nodeId \in DOMAIN subs /\ cid \notin acc.seen
               /\ evalFilter(subs[nodeId], type) /\ k # 0
            THEN [seen |-> acc.seen \cup {cid},
                  w |-> [acc.w EXCEPT !.clients[k].onAdd = Append(@, acc.id)],
                  id |-> acc.id]
            ELSE acc,
            type, subs, n + 1)

RECURSIVE sendChannels(_, _, _)
sendChannels(acc, type, chs) ==
  IF chs = <<>> THEN acc
  ELSE sendChannels(IF Head(chs) \in DOMAIN acc.w.subscribers
                    THEN sendChannel(acc, type, acc.w.subscribers[Head(chs)], 1)
                    ELSE acc,
                    type, Tail(chs))

\* the registries as sendAction finds them, kept with the entry
registered(w) ==
  [authed |-> {k \in w.connected : w.clients[k].auth = "ok"},
   clientIds |-> w.clientIds, subscribers |-> w.subscribers]

\* sendAction whose set of served clients starts empty
sendActionFromEmpty(w, i) ==
  LET e == w.log[i]
      from == parseId(idNode(e.id)).clientId
      a0 == [seen |-> {},
             w |-> [w EXCEPT !.log[i].sent = TRUE, !.log[i].at = registered(w)],
             id |-> e.id]
      a1 == sendNodes(a0, from, e.nodes)
      a2 == sendClients(a1, from, e.clients)
      a3 == sendUsers(a2, from, e.users)
      a4 == sendChannels(a3, e.type, e.channels)
  IN a4.w

\* BaseServer.sendAction(action, meta) for the entry at position i
sendAction(w, i) ==
  LET e == w.log[i]
      from == parseId(idNode(e.id)).clientId
      a0 == [seen |-> {from},
             w |-> [w EXCEPT !.log[i].sent = TRUE, !.log[i].at = registered(w)],
             id |-> e.id]
      a1 == sendNodes(a0, from, e.nodes)
      a2 == sendClients(a1, from, e.clients)
      a3 == sendUsers(a2, from, e.users)
      a4 == sendChannels(a3, e.type, e.channels)
  IN a4.w

\* ---------------------------------------------------------------- log
\* options.subprotocol
Subprotocol == "1.0.0"
\* options.backend is not set
Backend == FALSE

\* BaseServer.replaceResendShortcuts(meta); meta is a record holding only
\* the keys that are set
replaceResendShortcuts(meta) ==
  LET m1 == IF "channel" \in DOMAIN meta
            THEN Without(With(meta, "channels", <<meta.channel>>), "channel") ELSE meta
      m2 == IF "user" \in DOMAIN m1
            THEN Without(With(m1, "users", <<m1.user>>), "user") ELSE m1
      m3 == IF "client" \in DOMAIN m2
            THEN Without(With(m2, "clients", <<m2.client>>), "client") ELSE m2
  IN IF "node" \in DOMAIN m3
     THEN Without(With(m3, "nodes", <<m3.node>>), "node") ELSE m3

\* preadd that sets the subprotocol whatever node created the action
preaddSubprotocolAlways(type, meta) ==
  LET m1 == IF "server" \notin DOMAIN meta THEN With(meta, "server", ServerNode) ELSE meta
      m2 == IF "status" \notin DOMAIN m1 /\ ~IsLogux(type)
            THEN With(m1, "status", "waiting") ELSE m1
      m3 == IF "subprotocol" \notin DOMAIN m2
            THEN With(m2, "subprotocol", Subprotocol) ELSE m2
      m4 == IF ~Backend /\ type \notin DOMAIN types
               /\ getRegexProcessor(type) = NoProcessor /\ ~IsLogux(type)
            THEN With(m3, "status", "processed") ELSE m3
  IN replaceResendShortcuts(IF idNode(meta.id) = ServerNode THEN m4 ELSE m3)

\* the listener of the log's `preadd` event
preadd(type, meta) ==
  LET m1 == IF "server" \notin DOMAIN meta THEN With(meta, "server", ServerNode) ELSE meta
      m2 == IF "status" \notin DOMAIN m1 /\ ~IsLogux(type)
            THEN With(m1, "status", "waiting") ELSE m1
      m3 == IF "subprotocol" \notin DOMAIN m2
            THEN With(m2, "subprotocol", Subprotocol) ELSE m2
      m4 == IF ~Backend /\ type \notin DOMAIN types
               /\ getRegexProcessor(type) = NoProcessor /\ ~IsLogux(type)
            THEN With(m3, "status", "processed") ELSE m3
  IN replaceResendShortcuts(IF idNode(meta.id) = ServerNode THEN m4 ELSE m2)

\* log.add(action, meta): the entry after preadd, waiting for its `add` event;
\* given keeps the meta as it was passed, promise is the state of the promise
\* that process() returned for the action ("none" when added otherwise).
\* action is [type, channel, id, reason]; id and reason are those of a
\* logux/undo or logux/processed action.
logAdd(w, action, meta) ==
  LET m == preadd(action.type, meta)
  IN [w EXCEPT !.log = Append(@,
        [id |-> m.id, type |-> action.type, channel |-> action.channel,
         ref |-> action.id, reason |-> action.reason,
         status |-> Get(m, "status", "none"),
         server |-> m.server, subprotocol |-> Get(m, "subprotocol", "none"),
         nodes |-> Get(m, "nodes", <<>>), clients |-> Get(m, "clients", <<>>),
         users |-> Get(m, "users", <<>>), channels |-> Get(m, "channels", <<>>),
         pc |-> "add", def |-> 0, subscribed |-> FALSE, sent |-> FALSE,
         atAdd |-> "none", at |-> <<>>, trace |-> <<>>, given |-> meta,
         promise |-> "none"])]

\* the ID the log generates for an entry created by the server
generateId(w) == <<Len(w.log) + 1, ServerNode>>

\* listeners that do not compare the action of the event with their own
processListenersAnyAction(w, i, ev) ==
  IF ev \in {"on:error", "on:processed"}
  THEN [w EXCEPT !.log = [j \in DOMAIN w.log |->
         IF w.log[j].promise = "pending"
         THEN [w.log[j] EXCEPT !.promise = IF ev = "on:error" THEN "rejected"
                                           ELSE "resolved"]
         ELSE w.log[j]]]
  ELSE w

\* the `error` and `processed` listeners that process() bound for entry i,
\* called with an event of entry i: the first one unbinds both and settles
\* the promise
processListeners(w, i, ev) ==
  IF w.log[i].promise = "pending" /\ ev \in {"on:error", "on:processed"}
  THEN [w EXCEPT !.log[i].promise = IF ev = "on:error" THEN "rejected" ELSE "resolved"]
  ELSE w

\* the record of a report, callback or event ev of entry i; an event runs
\* the listeners
trace(w, i, ev) == processListeners([w EXCEPT !.log[i].trace = Append(@, ev)], i, ev)
setPc(w, i, pc) == [w EXCEPT !.log[i].pc = pc]

\* log.changeMeta(meta.id, {status})
changeStatus(w, i, status) == [w EXCEPT !.log[i].status = status]

\* emitProcessed whose destroy listener does not look at the counter
emitProcessedAnyCount(w, i) ==
  LET w1 == [w EXCEPT !.log[i].trace = Append(@, "on:processed")]
  IN IF w1.destroyed = "waiting" THEN [w1 EXCEPT !.destroyed = "resolved"] ELSE w1

\* emitter.emit('processed', action, meta, latency) with the listener that
\* destroy() registered
emitProcessed(w, i) ==
  LET w1 == trace(w, i, "on:processed")
  IN IF w1.destroyed = "waiting" /\ w1.processing = 0
     THEN [w1 EXCEPT !.destroyed = "resolved"] ELSE w1

\* BaseServer.buildUndo(meta, reason, extra): the meta of the undo
buildUndo(e) ==
  [status |-> "processed", users |-> e.users, nodes |-> e.nodes,
   clients |-> e.clients, channels |-> e.channels]

\* BaseServer.undo(meta, reason)
undo(w, i, reason) ==
  LET e == w.log[i]
      clientId == parseId(idNode(e.id)).clientId
      undoMeta == buildUndo(e)
  IN logAdd(trace(w, i, "undo"),
            [type |-> "logux/undo", channel |-> NotString, id |-> e.id,
             reason |-> reason],
            With([undoMeta EXCEPT !.clients = @ \o <<clientId>>], "id", generateId(w)))

\* markAsProcessed that answers the server's own actions too
markAsProcessedAlways(w, i) ==
  LET e == w.log[i]
      data == parseId(idNode(e.id))
      w1 == changeStatus(w, i, "processed")
  IN logAdd(trace(w1, i, "logux/processed"),
            [type |-> "logux/processed", channel |-> NotString, id |-> e.id,
             reason |-> ""],
            [id |-> generateId(w), clients |-> <<data.clientId>>,
             status |-> "processed"])

\* markAsProcessed whose logux/processed names its own ID
markAsProcessedOwnId(w, i) ==
  LET e == w.log[i]
      data == parseId(idNode(e.id))
      w1 == changeStatus(w, i, "processed")
  IN IF data.userId # "server"
     THEN logAdd(trace(w1, i, "logux/processed"),
                 [type |-> "logux/processed", channel |-> NotString,
                  id |-> generateId(w), reason |-> ""],
                 [id |-> generateId(w), clients |-> <<data.clientId>>,
                  status |-> "processed"])
     ELSE w1

\* BaseServer.markAsProcessed(meta)
markAsProcessed(w, i) ==
  LET e == w.log[i]
      data == parseId(idNode(e.id))
      w1 == changeStatus(w, i, "processed")
  IN IF data.userId # "server"
     THEN logAdd(trace(w1, i, "logux/processed"),
                 [type |-> "logux/processed", channel |-> NotString, id |-> e.id,
                  reason |-> ""],
                 [id |-> generateId(w), clients |-> <<data.clientId>>,
                  status |-> "processed"])
     ELSE w1

\* finally without its try: the exception undoes the action
finallyUndoes(w, processor, i, throws) ==
  IF processor # NoProcessor /\ processor.finally
  THEN LET w1 == trace(w, i, "cb:finally")
       IN IF throws THEN trace(undo(w1, i, "error"), i, "on:error") ELSE w1
  ELSE w

\* BaseServer.finally(processor, ctx, action, meta); throws tells whether
\* the callback throws
finally(w, processor, i, throws) ==
  IF processor # NoProcessor /\ processor.finally
  THEN LET w1 == trace(w, i, "cb:finally")
       IN IF throws THEN trace(w1, i, "on:error") ELSE w1
  ELSE w

\* internalUnkownType that undoes the actions of server users too
internalUnkownTypeUndoAlways(w, i) ==
  undo(trace(changeStatus(w, i, "error"), i, "unknownType"), i, "unknownType")

\* BaseServer.internalUnkownType(action, meta)
internalUnkownType(w, i) ==
  LET w1 == trace(changeStatus(w, i, "error"), i, "unknownType")
  IN IF parseId(idNode(w.log[i].id)).userId # "server"
     THEN undo(w1, i, "unknownType") ELSE w1

\* wrongChannel that reports and adds no logux/undo
wrongChannelNoUndo(w, i) == [w EXCEPT !.log[i].trace = Append(@, "wrongChannel")]

\* BaseServer.wrongChannel(action, meta) with internalWrongChannel
wrongChannel(w, i) == undo(trace(w, i, "wrongChannel"), i, "wrongChannel")

\* denyAction that adds no logux/undo
denyActionNoUndo(w, i) == [w EXCEPT !.log[i].trace = Append(@, "denied")]

\* BaseServer.denyAction(meta)
denyAction(w, i) == undo(trace(w, i, "denied"), i, "denied")

\* BaseServer.isUseless(action, meta)
isUseless(e) ==
  /\ ~(e.status # "processed" \/ e.type \in DOMAIN types
        \/ getRegexProcessor(e.type) # NoProcessor)
  /\ Len(e.channels) = 0 /\ Len(e.nodes) = 0 /\ Len(e.clients) = 0 /\ Len(e.users) = 0

\* unsubscribeAction that keeps the key of a channel left without subscribers
unsubscribeActionKeepKey(w, i) ==
  LET e == w.log[i]
      nodeId == idNode(e.id)
      subs == IF e.channel \notin DOMAIN w.subscribers THEN w.subscribers
              ELSE With(w.subscribers, e.channel, Without(w.subscribers[e.channel], nodeId))
      w1 == [w EXCEPT !.subscribers = subs,
                      !.log[i].trace = @ \o <<"on:unsubscribed", "unsubscribed">>]
  IN IF e.channel = NotString THEN wrongChannel(w, i) ELSE markAsProcessed(w1, i)

\* unsubscribeAction that does nothing for a node without an entry
unsubscribeActionIfSubscribed(w, i) ==
  LET e == w.log[i]
      nodeId == idNode(e.id)
  IN IF e.channel \in DOMAIN w.subscribers /\ nodeId \in DOMAIN w.subscribers[e.channel]
     THEN unsubscribeActionKeepKey(w, i)
     ELSE w

\* BaseServer.unsubscribeAction(action, meta)
unsubscribeAction(w, i) ==
  LET e == w.log[i]
      nodeId == idNode(e.id)
      left == IF e.channel \in DOMAIN w.subscribers
              THEN Without(w.subscribers[e.channel], nodeId) ELSE <<>>
      subs == IF e.channel \notin DOMAIN w.subscribers THEN w.subscribers
              ELSE IF DOMAIN left = {} THEN Without(w.subscribers, e.channel)
              ELSE With(w.subscribers, e.channel, left)
  IN IF e.channel = NotString THEN wrongChannel(w, i)
     ELSE markAsProcessed(
            trace(trace([w EXCEPT !.subscribers = subs], i, "on:unsubscribed"),
                  i, "unsubscribed"), i)

\* ---------------------------------------------------------------- add handler
\* the rest of a handler leaves the server-wide flags alone
handlerFrame == UNCHANGED <<authAttempts, timeouts, destroying, redestroyed, otherProcessor, otherSubscriber, proxy>>

done(w, i) == setPc(w, i, "done")

\* processAction that marks the action as processed when it calls process
processActionEager(w, i) ==
  setPc(trace(markAsProcessed([w EXCEPT !.processing = @ + 1], i), i, "cb:process"),
        i, "process")

\* BaseServer.processAction up to the call of the process callback
processAction(w, i) ==
  setPc(trace([w EXCEPT !.processing = @ + 1], i, "cb:process"), i, "process")

\* afterResend that does not look at the status
afterResendAnyStatus(w, i, other, throws) ==
  LET e == w.log[i]
      processor == getProcessor(e.type, other)
      w1 == IF isUseless(e) THEN trace(w, i, "useless") ELSE w
      w2 == sendAction(w1, i)
  IN IF processor = NoProcessor THEN done(internalUnkownType(w2, i), i)
     ELSE IF processor.process THEN processAction(w2, i)
     ELSE done(markAsProcessed(finally(emitProcessed(w2, i), processor, i, throws), i), i)

\* the `add` handler from isUseless on (after the resend part)
afterResend(w, i, other, throws) ==
  LET e == w.log[i]
      processor == getProcessor(e.type, other)
      w1 == IF isUseless(e) THEN trace(w, i, "useless") ELSE w
      w2 == sendAction(w1, i)
  IN IF e.status = "waiting"
     THEN IF processor = NoProcessor THEN done(internalUnkownType(w2, i), i)
          ELSE IF processor.process THEN processAction(w2, i)
          ELSE done(markAsProcessed(finally(emitProcessed(w2, i), processor, i, throws), i), i)
     ELSE done(finally(emitProcessed(w2, i), processor, i, throws), i)

\* subscribeAction's list: the channel() definitions and, when
\* otherChannel() was called, its definition after them
subscribeChannels ==
  IF otherSubscriber # NoProcessor THEN channels \o <<otherSubscriber>> ELSE channels

\* a scan that keeps the last definition the name matches
matchChannelLast(name) ==
  LET hits == {n \in 1..Len(subscribeChannels) : name \in subscribeChannels[n].matches}
  IN IF hits = {} THEN 0 ELSE CHOOSE n \in hits : \A m \in hits : n >= m

\* the channel definition a channel name matches first, 0 if none
matchChannel(name) ==
  LET hits == {n \in 1..Len(subscribeChannels) : name \in subscribeChannels[n].matches}
  IN IF hits = {} THEN 0 ELSE CHOOSE n \in hits : \A m \in hits : n <= m

\* BaseServer.subscribeAction up to the call of the access callback
subscribeAction(w, i) ==
  LET e == w.log[i]
      def == IF e.channel = NotString THEN 0 ELSE matchChannel(e.channel)
  IN IF def = 0 THEN done(wrongChannel(w, i), i)
     ELSE setPc(trace([w EXCEPT !.log[i].def = def], i, "cb:access"), i, "access")

\* the listener of the log's `add` event, up to its first await
add(i, throws) ==
  /\ i \in DOMAIN log
  /\ log[i].pc = "add"
  /\ LET e == log[i]
         w == trace([World EXCEPT !.log[i].atAdd = e.status], i, "add")
         processor == getProcessor(e.type, otherProcessor)
     IN SetWorld(
          IF destroying THEN done(w, i)
          ELSE IF e.type = "logux/subscribe"
          THEN (IF e.server = ServerNode THEN subscribeAction(w, i) ELSE done(w, i))
          ELSE IF e.type = "logux/unsubscribe"
          THEN (IF e.server = ServerNode THEN done(unsubscribeAction(w, i), i)
                ELSE done(w, i))
          ELSE IF processor # NoProcessor /\ processor.resend /\ e.status = "waiting"
          THEN setPc(trace(w, i, "cb:resend"), i, "resend")
          ELSE afterResend(w, i, otherProcessor, throws))
  /\ handlerFrame

\* the keys of RESEND_META that the resend result sets, written to the entry
applyDiff(w, i, resend) ==
  LET r == replaceResendShortcuts(resend)
  IN [w EXCEPT !.log[i].channels = Get(r, "channels", @),
               !.log[i].users = Get(r, "users", @),
               !.log[i].clients = Get(r, "clients", @),
               !.log[i].nodes = Get(r, "nodes", @)]

\* a catch block of resend that goes on with the handler
resendThrowsGoesOn(i, throws) ==
  /\ i \in DOMAIN log
  /\ log[i].pc = "resend"
  /\ SetWorld(afterResend(trace(undo(World, i, "error"), i, "on:error"), i,
                          otherProcessor, throws))
  /\ handlerFrame

\* the resend callback throws
resendThrows(i, throws) ==
  /\ i \in DOMAIN log
  /\ log[i].pc = "resend"
  /\ SetWorld(done(finally(trace(undo(World, i, "error"), i, "on:error"),
                           getProcessor(log[i].type, otherProcessor), i, throws), i))
  /\ handlerFrame

\* a resend callback that resolves with a falsy value
NoResend == [none |-> TRUE]

\* the resend callback resolves with resend
resendSettled(i, resend, throws) ==
  /\ i \in DOMAIN log
  /\ log[i].pc = "resend"
  /\ SetWorld(IF resend = NoResend
              THEN afterResend(World, i, otherProcessor, throws)
              ELSE setPc(applyDiff(World, i, resend), i, "changeMeta"))
  /\ handlerFrame

\* log.changeMeta(meta.id, diff) of the resend part resolves
changeMetaSettled(i, throws) ==
  /\ i \in DOMAIN log
  /\ log[i].pc = "changeMeta"
  /\ SetWorld(afterResend(World, i, otherProcessor, throws))
  /\ handlerFrame

\* processSettled that forgets the counter when the callback throws
processSettledLeak(i, ok, throws) ==
  /\ i \in DOMAIN log
  /\ log[i].pc = "process"
  /\ LET w1 == IF ok THEN markAsProcessed(trace(World, i, "processed"), i)
               ELSE trace(undo(changeStatus(World, i, "error"), i, "error"), i, "on:error")
         w2 == finally(w1, getProcessor(log[i].type, otherProcessor), i, throws)
         w3 == IF ok THEN [w2 EXCEPT !.processing = @ - 1] ELSE w2
     IN SetWorld(done(emitProcessed(w3, i), i))
  /\ handlerFrame

\* processSettled whose catch block adds no logux/undo
processSettledNoUndo(i, ok, throws) ==
  /\ i \in DOMAIN log
  /\ log[i].pc = "process"
  /\ LET w1 == IF ok THEN markAsProcessed(trace(World, i, "processed"), i)
               ELSE trace(changeStatus(World, i, "error"), i, "on:error")
         w2 == finally(w1, getProcessor(log[i].type, otherProcessor), i, throws)
         w3 == [w2 EXCEPT !.processing = @ - 1]
     IN SetWorld(done(emitProcessed(w3, i), i))
  /\ handlerFrame

\* processSettled that leaves the status of a failed action alone
processSettledKeepStatus(i, ok, throws) ==
  /\ i \in DOMAIN log
  /\ log[i].pc = "process"
  /\ LET w1 == IF ok THEN markAsProcessed(trace(World, i, "processed"), i)
               ELSE trace(undo(World, i, "error"), i, "on:error")
         w2 == finally(w1, getProcessor(log[i].type, otherProcessor), i, throws)
         w3 == [w2 EXCEPT !.processing = @ - 1]
     IN SetWorld(done(emitProcessed(w3, i), i))
  /\ handlerFrame

\* BaseServer.processAction after the process callback settled
processSettled(i, ok, throws) ==
  /\ i \in DOMAIN log
  /\ log[i].pc = "process"
  /\ LET w1 == IF ok THEN markAsProcessed(trace(World, i, "processed"), i)
               ELSE trace(undo(changeStatus(World, i, "error"), i, "error"), i, "on:error")
         w2 == finally(w1, getProcessor(log[i].type, otherProcessor), i, throws)
         w3 == [w2 EXCEPT !.processing = @ - 1]
     IN SetWorld(done(emitProcessed(w3, i), i))
  /\ handlerFrame

\* ---------------------------------------------------------------- subscribe
\* the trace entry of a callback that settled with result
settled(callback, result) ==
  CASE callback = "access" /\ result = "true" -> "access:true"
    [] callback = "access" /\ result = "false" -> "access:false"
    [] callback = "access" /\ result = "wrongChannel" -> "access:wrongChannel"
    [] callback = "filter" /\ result = "true" -> "filter:true"
    [] callback = "filter" /\ result = "fn" -> "filter:fn"
    [] callback = "filter" /\ result = "falsy" -> "filter:falsy"
    [] callback = "load" /\ result = "ok" -> "load:ok"
    [] result = "throw" -> "throw"

\* the finally block of subscribeAction
subscribeFinally(w, i, throws) == done(finally(w, subscribeChannels[w.log[i].def], i, throws), i)

\* the catch block without the call of unsubscribeAction
subscribeCatchKeepEntry(w, i) == undo(trace(w, i, "on:error"), i, "error")

\* the catch block of subscribeAction
subscribeCatch(w, i) ==
  LET w1 == undo(trace(w, i, "on:error"), i, "error")
  IN IF w1.log[i].subscribed THEN unsubscribeAction(w1, i) ELSE w1

\* subscribeAction from the `subscribed` report to the call of load
afterFilter(w, i, filter, throws) ==
  LET e == w.log[i]
      nodeId == idNode(e.id)
      w1 == trace(w, i, "subscribed")
      w2 == IF e.channel \notin DOMAIN w1.subscribers
            THEN trace([w1 EXCEPT !.subscribers = With(@, e.channel, <<>>)],
                       i, "on:subscribing")
            ELSE w1
      w3 == [w2 EXCEPT !.subscribers[e.channel] = With(@, nodeId, filter),
                       !.log[i].subscribed = TRUE]
  IN IF subscribeChannels[e.def].load THEN setPc(trace(w3, i, "cb:load"), i, "load")
     ELSE subscribeFinally(markAsProcessed(trace(w3, i, "on:subscribed"), i), i, throws)

\* the access callback settles: "true", "false", "throw", or "wrongChannel"
\* when it called server.wrongChannel(action, meta) before resolving
accessSettled(i, access, throws) ==
  /\ i \in DOMAIN log
  /\ log[i].pc = "access"
  /\ LET e == log[i]
         clientId == parseId(idNode(e.id)).clientId
         w == trace(World, i, settled("access", access))
     IN SetWorld(
          IF access = "throw" THEN subscribeFinally(subscribeCatch(w, i), i, throws)
          ELSE IF access = "wrongChannel"
          THEN subscribeFinally(wrongChannel(w, i), i, throws)
          ELSE IF access = "false" THEN subscribeFinally(denyAction(w, i), i, throws)
          ELSE IF clientId \notin DOMAIN clientIds
          THEN subscribeFinally(trace(w, i, "on:subscriptionCancelled"), i, throws)
          ELSE IF subscribeChannels[e.def].filter
          THEN setPc(trace(w, i, "cb:filter"), i, "filter")
          ELSE afterFilter(w, i, "true", throws))
  /\ handlerFrame

\* the filter callback settles: with a filter function ("fn"), with a
\* falsy value ("falsy"), with true ("true"), or it throws ("throw")
filterSettled(i, filter, throws) ==
  /\ i \in DOMAIN log
  /\ log[i].pc = "filter"
  /\ LET w == trace(World, i, settled("filter", filter))
     IN SetWorld(IF filter = "throw" THEN subscribeFinally(subscribeCatch(w, i), i, throws)
                 ELSE afterFilter(w, i, filter, throws))
  /\ handlerFrame

\* the load callback settles (it sends nothing back)
loadSettled(i, ok, throws) ==
  /\ i \in DOMAIN log
  /\ log[i].pc = "load"
  /\ LET w == trace(World, i, settled("load", IF ok THEN "ok" ELSE "throw"))
     IN SetWorld(IF ok
                 THEN subscribeFinally(markAsProcessed(trace(w, i, "on:subscribed"), i),
                                       i, throws)
                 ELSE subscribeFinally(subscribeCatch(w, i), i, throws))
  /\ handlerFrame

\* log.add(action, meta) from outside: a client's sync or the application
logAddAction(type, channel, origin, meta, limit) ==
  /\ Len(SelectSeq(log, LAMBDA e : e.ref = <<>>)) < limit
  /\ SetWorld(logAdd(World, [type |-> type, channel |-> channel, id |-> <<>>,
                             reason |-> ""],
                     With(meta, "id", <<Len(log) + 1, origin>>)))
  /\ handlerFrame

\* BaseServer.process(action, meta = {}): the listeners are bound and the
\* action is added to the log; origin is the node of meta.id, the server's
\* own when the meta has no id and the log generates it
serverProcess(type, origin, limit) ==
  /\ Len(SelectSeq(log, LAMBDA e : e.ref = <<>>)) < limit
  /\ LET w == logAdd(World, [type |-> type, channel |-> NotString, id |-> <<>>,
                              reason |-> ""],
                     [id |-> <<Len(log) + 1, origin>>])
     IN SetWorld([w EXCEPT !.log[Len(w.log)].promise = "pending"])
  /\ handlerFrame

\* ---------------------------------------------------------------- inbound filter
\* node IDs of the inbound actions: NodeE is another client of user 10,
\* NodeU has no user segment
NodeE == <<"10", "e", "a">>
NodeU == <<"u">>

\* BaseServer.getUser(nodeId): the part before the first ':', "undefined"
\* standing for the false of a node ID without ':'
getUser(n) == IF Len(n) >= 2 THEN n[1] ELSE "undefined"

\* Client.filter: the creator of the action is not the user of client c;
\* a client without user is not examined
wrongUser(c, meta) ==
  /\ getUser(c.nodeId) # "undefined"
  /\ getUser(c.nodeId) # getUser(idNode(meta.id))

\* Client.filter: the meta has a key the client may not set
wrongMeta(meta) == \E key \in DOMAIN meta : key # "id" /\ key # "time"

\* app.reporter(name, app, action, meta) about an action received from
\* connection k: the report holds the ID and the keys of the meta
reportAction(w, name, k, meta) ==
  [w EXCEPT !.clients[k].reports = Append(@, name),
            !.reported = Append(@, With(Report(name, k, w.clients[k].nodeId, meta.id),
                                        "keys", DOMAIN meta))]

\* BaseServer.undo(meta, reason) for the meta of an action that is not in
\* the log
undoMeta(w, meta, reason) ==
  LET clientId == parseId(idNode(meta.id)).clientId
      undoMeta0 == buildUndo([users |-> Get(meta, "users", <<>>),
                              nodes |-> Get(meta, "nodes", <<>>),
                              clients |-> Get(meta, "clients", <<>>),
                              channels |-> Get(meta, "channels", <<>>)])
  IN logAdd(w, [type |-> "logux/undo", channel |-> NotString, id |-> meta.id,
                reason |-> reason],
            With([undoMeta0 EXCEPT !.clients = @ \o <<clientId>>], "id", generateId(w)))

\* the admission of an action the filter let pass: subscriptions go to the
\* channel engine, for the others the access callback of the processor
\* decides, and a denial takes the path of denyAction
admit(w, k, action, meta, access) ==
  IF action.type \in {"logux/subscribe", "logux/unsubscribe"} \/ access
  THEN logAdd(w, action, meta)
  ELSE undoMeta(reportAction(w, "denied", k, meta), meta, "denied")

\* Client.filter(action, meta), the inFilter of the client's sync, for an
\* action received from connection k; access is what the access callback
\* of the type answers
inFilter(k, action, meta, access, limit) ==
  /\ k \in 1..Len(clients)
  /\ clients[k].auth = "ok" /\ clients[k].connected /\ ~clients[k].destroyed
  /\ ~destroying
  /\ Len(SelectSeq(log, LAMBDA e : e.ref = <<>> \/ e.reason = "denied")) < limit
  /\ Count(clients[k].reports, "denied") < MaxDenied
  /\ IF wrongUser(clients[k], meta) \/ wrongMeta(meta)
     THEN SetWorld(reportAction(World, "denied", k, meta))
     ELSE SetWorld(admit(World, k, action, meta, access))
  /\ handlerFrame

InitRegistry ==
  /\ clients = <<>>
  /\ connected = {}
  /\ nodeIds = [x \in {} |-> 0]
  /\ clientIds = [x \in {} |-> 0]
  /\ userIds = [x \in {} |-> <<>>]
  /\ subscribers = [x \in {} |-> <<>>]
  /\ authAttempts = [x \in {} |-> 0]
  /\ timeouts = [ip \in IPs |-> 0]
  /\ reported = <<>>
  /\ destroying = FALSE
  /\ redestroyed = 0
  /\ log = <<>>
  /\ processing = 0
  /\ destroyed = "none"
  /\ proxy = <<>>

\* ---------------------------------------------------------------- authentication
AuthInit == InitRegistry /\ otherProcessor = NoProcessor /\ otherSubscriber = NoProcessor

\* the node ID the peers present while the bruteforce guard is examined
BruteNodes == {NodeD}

BruteNext ==
  \/ \E ip \in IPs : addClient(ip, MaxAuthClients)
  \/ \E k \in 1..Len(clients), n \in BruteNodes : auth(k, n)
  \/ \E k \in 1..Len(clients) : authDenied(k)
  \/ \E k \in 1..Len(clients) : authResolved(k)
  \/ \E ip \in IPs : badAuthTimeout(ip)
  \/ serverDestroy

BruteSpec == AuthInit /\ [][BruteNext]_vars

\* the node IDs the peers present while the eviction is examined
ZombieNodes == {NodeA, NodeB}

ClientNext ==
  \/ addClient("ip1", MaxClients)
  \/ \E k \in 1..Len(clients), n \in ZombieNodes : auth(k, n)
  \/ \E k \in 1..Len(clients) : authResolved(k)
  \/ \E k \in 1..Len(clients) : authDenied(k)
  \/ \E k \in 1..Len(clients) : stateListener(k)
  \/ \E k \in 1..Len(clients) : clientDestroy(k)
  \/ serverDestroy

ClientSpec == AuthInit /\ [][ClientNext]_vars

\* ---------------------------------------------------------------- server user specification
\* a node ID whose user segment is `server`
NodeS == <<"server", "uuid">>
\* the node IDs the peers present
ServerUserNodes == {NodeS, NodeA}

ServerUserNext ==
  \/ addClient("ip1", MaxClients)
  \/ \E k \in 1..Len(clients), n \in ServerUserNodes : clientAuth(k, n)
  \/ \E k \in 1..Len(clients) : authResolved(k)
  \/ \E k \in 1..Len(clients) : authDenied(k)
  \/ \E k \in 1..Len(clients) : stateListener(k)

ServerUserSpec == AuthInit /\ [][ServerUserNext]_vars

\* ---------------------------------------------------------------- fan-out specification
\* a meta without any key
NoMeta == << >>
ClientC == <<"10", "c">>
ClientD == <<"20", "d">>
\* the addressing of the actions whose fan-out is examined
Addressings ==
  {[nodes |-> <<NodeA, NodeB>>],
   [clients |-> <<ClientC>>, users |-> <<"10">>],
   [channels |-> <<"ch1", "ch2">>],
   [nodes |-> <<NodeD, NodeD>>, clients |-> <<ClientD>>, users |-> <<"20", "10">>,
    channels |-> <<"ch1">>]}
\* type and origin of those actions: U from the server is stored as
\* processed, C from a client has a processor without callbacks
Senders == {<<"U", ServerNode>>, <<"C", NodeA>>}
\* the values the filter callback resolves with in this specification
Filters == {"fn", "falsy"}

FanoutNext ==
  \/ addClient("ip1", MaxClients)
  \/ \E k \in 1..Len(clients), n \in ClientNodes : auth(k, n)
  \/ \E k \in 1..Len(clients) : authResolved(k)
  \/ \E channel \in Channels, origin \in {NodeA, NodeD} :
       logAddAction("logux/subscribe", channel, origin, NoMeta, MaxActions)
  \/ \E sender \in Senders, meta \in Addressings :
       logAddAction(sender[1], NotString, sender[2], meta, MaxActions)
  \/ \E i \in 1..Len(log) : add(i, FALSE)
  \/ \E i \in 1..Len(log) : accessSettled(i, "true", FALSE)
  \/ \E i \in 1..Len(log), filter \in Filters : filterSettled(i, filter, FALSE)
  \/ \E i \in 1..Len(log) : loadSettled(i, TRUE, FALSE)

FanoutSpec == AuthInit /\ [][FanoutNext]_vars

\* ---------------------------------------------------------------- subscribe specification
\* the channel names of the subscriptions
SubscribeChannels == {"ch1", "ch2"}
\* what the access callback settles with
AccessResults == {"true", "false", "throw", "wrongChannel"}
\* what the filter callback settles with
FilterResults == {"fn", "throw"}

SubscribeNext ==
  \/ addClient("ip1", MaxClients)
  \/ \E k \in 1..Len(clients) : auth(k, NodeA)
  \/ \E k \in 1..Len(clients) : authResolved(k)
  \/ \E k \in 1..Len(clients) : stateListener(k)
  \/ \E channel \in SubscribeChannels :
       logAddAction("logux/subscribe", channel, NodeA, NoMeta, MaxActions)
  \/ \E i \in 1..Len(log) : add(i, FALSE)
  \/ \E i \in 1..Len(log), access \in AccessResults : accessSettled(i, access, FALSE)
  \/ \E i \in 1..Len(log), filter \in FilterResults : filterSettled(i, filter, FALSE)
  \/ \E i \in 1..Len(log), ok \in BOOLEAN : loadSettled(i, ok, FALSE)

SubscribeSpec == AuthInit /\ [][SubscribeNext]_vars

\* ---------------------------------------------------------------- channel specification
\* subscriptions and their removal, with clients that come and go
ChannelNext ==
  \/ addClient("ip1", MaxClients)
  \/ \E k \in 1..Len(clients) : auth(k, NodeA)
  \/ \E k \in 1..Len(clients) : authResolved(k)
  \/ \E k \in 1..Len(clients) : stateListener(k)
  \/ \E type \in {"logux/subscribe", "logux/unsubscribe"}, channel \in Channels :
       logAddAction(type, channel, NodeA, NoMeta, MaxActions)
  \/ \E i \in 1..Len(log) : add(i, FALSE)
  \/ \E i \in 1..Len(log) : accessSettled(i, "true", FALSE)
  \/ \E i \in 1..Len(log), filter \in FilterResults : filterSettled(i, filter, FALSE)
  \/ \E i \in 1..Len(log), ok \in BOOLEAN : loadSettled(i, ok, FALSE)

ChannelSpec == AuthInit /\ [][ChannelNext]_vars

\* ---------------------------------------------------------------- channel match specification
\* the channel names of the subscriptions: ch3 matches no channel() definition
MatchChannels == {"ch1", "ch2", "ch3"}
\* the definition of otherChannel(): its pattern matches every name
OtherChannel == [matches |-> MatchChannels, filter |-> FALSE, load |-> FALSE, finally |-> TRUE]
OtherSubscribers == {NoProcessor, OtherChannel}

MatchInit ==
  InitRegistry /\ otherProcessor = NoProcessor /\ otherSubscriber \in OtherSubscribers

MatchNext ==
  \/ addClient("ip1", MaxClients)
  \/ \E k \in 1..Len(clients) : auth(k, NodeA)
  \/ \E k \in 1..Len(clients) : authResolved(k)
  \/ \E channel \in MatchChannels \cup {NotString} :
       logAddAction("logux/subscribe", channel, NodeA, NoMeta, MaxActions)
  \/ \E i \in 1..Len(log) : add(i, FALSE)
  \/ \E i \in 1..Len(log), access \in {"true", "false", "wrongChannel"} :
       accessSettled(i, access, FALSE)
  \/ \E i \in 1..Len(log) : filterSettled(i, "fn", FALSE)
  \/ \E i \in 1..Len(log), ok \in BOOLEAN : loadSettled(i, ok, FALSE)

MatchSpec == MatchInit /\ [][MatchNext]_vars

\* ---------------------------------------------------------------- failing subscription specification
\* the nodes that subscribe
FailNodes == {NodeA, NodeB}

FailNext ==
  \/ addClient("ip1", MaxClients)
  \/ \E k \in 1..Len(clients) : auth(k, NodeA)
  \/ \E k \in 1..Len(clients) : authResolved(k)
  \/ \E origin \in FailNodes :
       logAddAction("logux/subscribe", "ch2", origin, NoMeta, MaxActions)
  \/ \E origin \in FailNodes, channel \in {"ch1", "ch2"} :
       logAddAction("logux/unsubscribe", channel, origin, NoMeta, MaxActions)
  \/ \E i \in 1..Len(log) : add(i, FALSE)
  \/ \E i \in 1..Len(log), access \in {"true", "throw"} : accessSettled(i, access, FALSE)
  \/ \E i \in 1..Len(log), filter \in FilterResults : filterSettled(i, filter, FALSE)
  \/ \E i \in 1..Len(log), ok \in BOOLEAN : loadSettled(i, ok, FALSE)

FailSpec == AuthInit /\ [][FailNext]_vars

\* ---------------------------------------------------------------- inbound specification
\* the node IDs the peers present
InboundNodes == {NodeA, NodeU}
\* the creators named in the IDs of the received actions
Creators == {NodeA, NodeB, NodeE, NodeD, NodeU}
\* the meta keys a received action carries beside its id
InboundMetas == {[time |-> 1], [time |-> 1, subprotocol |-> "2.0.0"],
                 [time |-> 1, status |-> "processed"]}
\* the received actions
InboundActions ==
  {[type |-> "A", channel |-> NotString, id |-> <<>>, reason |-> ""],
   [type |-> "logux/subscribe", channel |-> "ch1", id |-> <<>>, reason |-> ""]}

InboundNext ==
  \/ addClient("ip1", MaxClients)
  \/ \E k \in 1..Len(clients), n \in InboundNodes : auth(k, n)
  \/ \E k \in 1..Len(clients) : authResolved(k)
  \/ \E k \in 1..Len(clients), action \in InboundActions, creator \in Creators,
        meta \in InboundMetas, access \in BOOLEAN :
       inFilter(k, action, With(meta, "id", <<Len(log) + 1, creator>>), access, MaxActions)
  \/ \E i \in 1..Len(log) : add(i, FALSE)
  \/ \E i \in 1..Len(log), ok \in BOOLEAN : processSettled(i, ok, FALSE)
  \/ \E i \in 1..Len(log), access \in {"true", "false"} : accessSettled(i, access, FALSE)

InboundSpec == AuthInit /\ [][InboundNext]_vars

\* ---------------------------------------------------------------- pipeline specification
\* the action types added from outside: U is registered nowhere
Types == {"A", "B", "C", "R1", "U"}
\* the nodes that create the added actions
Origins == {NodeA, ServerNode}
\* the values a resend callback resolves with
ResendResults == {NoResend, [channel |-> "ch1"]}

Init ==
  InitRegistry /\ otherProcessor \in OtherProcessors /\ otherSubscriber = NoProcessor

Next ==
  \/ \E type \in Types, origin \in Origins :
       logAddAction(type, NotString, origin, NoMeta, MaxActions)
  \/ \E i \in 1..Len(log), throws \in BOOLEAN : add(i, throws)
  \/ \E i \in 1..Len(log), throws \in BOOLEAN : resendThrows(i, throws)
  \/ \E i \in 1..Len(log), resend \in ResendResults, throws \in BOOLEAN :
       resendSettled(i, resend, throws)
  \/ \E i \in 1..Len(log), throws \in BOOLEAN : changeMetaSettled(i, throws)
  \/ \E i \in 1..Len(log), ok \in BOOLEAN, throws \in BOOLEAN : processSettled(i, ok, throws)
  \/ serverDestroy

Spec == Init /\ [][Next]_vars

\* ---------------------------------------------------------------- resend specification
\* the values the resend callback of B resolves with
ResendAddressings ==
  {NoResend, [channel |-> "ch1"], [channels |-> <<"ch1", "ch2">>, user |-> "10"]}
\* the meta the actions of type B are added with
ResendMetas == {NoMeta, [nodes |-> <<NodeD>>, channels |-> <<"ch2">>]}

ResendNext ==
  \/ addClient("ip1", MaxClients)
  \/ \E k \in 1..Len(clients), n \in ZombieNodes : auth(k, n)
  \/ \E k \in 1..Len(clients) : authResolved(k)
  \/ logAddAction("logux/subscribe", "ch1", NodeA, NoMeta, MaxActions)
  \/ \E meta \in ResendMetas : logAddAction("B", NotString, NodeD, meta, MaxActions)
  \/ \E i \in 1..Len(log) : add(i, FALSE)
  \/ \E i \in 1..Len(log) : accessSettled(i, "true", FALSE)
  \/ \E i \in 1..Len(log) : resendThrows(i, FALSE)
  \/ \E i \in 1..Len(log), resend \in ResendAddressings : resendSettled(i, resend, FALSE)
  \/ \E i \in 1..Len(log) : changeMetaSettled(i, FALSE)
  \/ \E i \in 1..Len(log), ok \in BOOLEAN : processSettled(i, ok, FALSE)

ResendSpec == AuthInit /\ [][ResendNext]_vars

\* ---------------------------------------------------------------- finally specification
\* the action types whose processor defines finally
FinallyTypes == {"B", "R1"}

FinallyNext ==
  \/ addClient("ip1", MaxClients)
  \/ \E k \in 1..Len(clients) : auth(k, NodeA)
  \/ \E k \in 1..Len(clients) : authResolved(k)
  \/ \E type \in FinallyTypes : logAddAction(type, NotString, NodeA, NoMeta, MaxActions)
  \/ logAddAction("logux/subscribe", "ch2", NodeA, NoMeta, MaxActions)
  \/ \E i \in 1..Len(log), throws \in BOOLEAN : add(i, throws)
  \/ \E i \in 1..Len(log), throws \in BOOLEAN : resendThrows(i, throws)
  \/ \E i \in 1..Len(log), resend \in ResendResults, throws \in BOOLEAN :
       resendSettled(i, resend, throws)
  \/ \E i \in 1..Len(log), throws \in BOOLEAN : changeMetaSettled(i, throws)
  \/ \E i \in 1..Len(log), ok \in BOOLEAN, throws \in BOOLEAN : processSettled(i, ok, throws)
  \/ \E i \in 1..Len(log), access \in AccessResults, throws \in BOOLEAN :
       accessSettled(i, access, throws)
  \/ \E i \in 1..Len(log), filter \in FilterResults, throws \in BOOLEAN :
       filterSettled(i, filter, throws)
  \/ \E i \in 1..Len(log), ok \in BOOLEAN, throws \in BOOLEAN : loadSettled(i, ok, throws)

FinallySpec == AuthInit /\ [][FinallyNext]_vars

\* ---------------------------------------------------------------- process() specification
ProcessNext ==
  \/ \E type \in Types : serverProcess(type, ServerNode, MaxActions)
  \/ \E type \in Types : logAddAction(type, NotString, NodeA, NoMeta, MaxActions)
  \/ \E i \in 1..Len(log), throws \in BOOLEAN : add(i, throws)
  \/ \E i \in 1..Len(log), throws \in BOOLEAN : resendThrows(i, throws)
  \/ \E i \in 1..Len(log), resend \in ResendResults, throws \in BOOLEAN :
       resendSettled(i, resend, throws)
  \/ \E i \in 1..Len(log), throws \in BOOLEAN : changeMetaSettled(i, throws)
  \/ \E i \in 1..Len(log), ok \in BOOLEAN, throws \in BOOLEAN : processSettled(i, ok, throws)
  \/ serverDestroy

ProcessSpec == Init /\ [][ProcessNext]_vars

\* ---------------------------------------------------------------- backend proxy
\* the proxy's callbacks leave the server's own state alone
proxyFrame ==
  UNCHANGED <<clients, connected, nodeIds, clientIds, userIds, subscribers, authAttempts,
              timeouts, reported, destroying, redestroyed, log, processing,
              destroyed, otherProcessor, otherSubscriber>>

\* access(ctx, action, meta) up to `await send`: the promise is stored
\* under meta.id and the request is sent
proxyAccess(id) ==
  /\ id \notin DOMAIN proxy
  /\ proxy' = With(proxy, id, [processing |-> "pending", request |-> "sent",
                               access |-> "pending", process |-> "none"])
  /\ proxyFrame

\* send: a chunk arrives while the request is not resolved; answer is the
\* command the received text starts with ("none" for an incomplete text)
chulkCallback(id, answer) ==
  /\ id \in DOMAIN proxy
  /\ proxy[id].request = "sent"
  /\ proxy' =
       [proxy EXCEPT ![id] =
          CASE answer = "approved" -> [@ EXCEPT !.request = "resolved", !.access = "true"]
            [] answer \in {"forbidden", "unknownAction", "unknownChannel"} ->
                 [@ EXCEPT !.request = "resolved", !.access = "false",
                           !.processing = "absent"]
            [] answer = "error" ->
                 [@ EXCEPT !.request = "errored", !.access = "throw",
                           !.processing = "absent"]
            [] OTHER -> @]
  /\ proxyFrame

\* send: the request fails before an answer resolved it (a status outside
\* 2xx, or the `error` event of the request): access deletes the entry and
\* throws
requestFails(id) ==
  /\ id \in DOMAIN proxy
  /\ proxy[id].request = "sent"
  /\ proxy' = [proxy EXCEPT ![id] = [@ EXCEPT !.request = "failed", !.access = "throw",
                                              !.processing = "absent"]]
  /\ proxyFrame

\* send: the `end` event of the response; body tells whether the answer
\* has a processed command, an error command, or cannot be parsed
endCallback(id, body) ==
  /\ id \in DOMAIN proxy
  /\ proxy[id].request \in {"sent", "resolved"}
  /\ proxy' =
       [proxy EXCEPT ![id] =
          IF @.request = "sent"
          THEN [@ EXCEPT !.request = "ended", !.access = "throw", !.processing = "absent"]
          ELSE IF @.processing = "pending"
          THEN [@ EXCEPT !.request = "ended",
                         !.processing = IF body = "processed" THEN "resolved"
                                        ELSE "rejected"]
          ELSE [@ EXCEPT !.request = "ended"]]
  /\ proxyFrame

\* the server calls process(ctx, action, meta) for an approved action: the
\* `add` listener does so unless the server is destroying
proxyProcess(id) ==
  /\ id \in DOMAIN proxy
  /\ proxy[id].access = "true" /\ proxy[id].process = "none"
  /\ ~destroying
  /\ proxy' = [proxy EXCEPT ![id].process = "awaiting"]
  /\ proxyFrame

\* process: `await processing[meta.id]` settles and the entry is deleted
proxyProcessSettled(id) ==
  /\ id \in DOMAIN proxy
  /\ proxy[id].process = "awaiting"
  /\ proxy[id].processing \in {"resolved", "rejected"}
  /\ proxy' = [proxy EXCEPT ![id].process = IF proxy[id].processing = "resolved"
                                             THEN "returned" ELSE "threw",
                             ![id].processing = "absent"]
  /\ proxyFrame

\* ---------------------------------------------------------------- backend proxy specification
\* the meta.id of the actions sent to the backend
ProxyIds == 1..MaxActions
\* the commands an answer of the backend starts with
Answers == {"approved", "forbidden", "unknownAction", "unknownChannel", "error", "none"}
\* the bodies of a finished answer
Bodies == {"processed", "error", "wrong"}

ProxyNext ==
  \/ \E id \in ProxyIds : proxyAccess(id)
  \/ \E id \in ProxyIds, answer \in Answers : chulkCallback(id, answer)
  \/ \E id \in ProxyIds : requestFails(id)
  \/ \E id \in ProxyIds, body \in Bodies : endCallback(id, body)
  \/ \E id \in ProxyIds : proxyProcess(id)
  \/ \E id \in ProxyIds : proxyProcessSettled(id)
  \/ serverDestroy

ProxySpec == AuthInit /\ [][ProxyNext]_vars

\* ---------------------------------------------------------------- process() liveness specification
\* the steps of the pipeline that the event loop takes once they are due:
\* the `add` listener, and the continuations of the callbacks, which all
\* terminate
ProcessHandlers ==
  \/ \E i \in 1..Len(log) : add(i, FALSE)
  \/ \E i \in 1..Len(log) : resendThrows(i, FALSE)
  \/ \E i \in 1..Len(log), resend \in ResendResults : resendSettled(i, resend, FALSE)
  \/ \E i \in 1..Len(log) : changeMetaSettled(i, FALSE)
  \/ \E i \in 1..Len(log), ok \in BOOLEAN : processSettled(i, ok, FALSE)

ProcessLiveNext ==
  \/ \E type \in Types, origin \in Origins : serverProcess(type, origin, MaxActions)
  \/ ProcessHandlers
  \/ serverDestroy

ProcessLiveSpec == Init /\ [][ProcessLiveNext]_vars /\ WF_vars(ProcessHandlers)

\* ---------------------------------------------------------------- preadd specification
\* another server's node ID
OtherServer == <<"server", "y">>
\* the metas the added actions come with
PreaddMetas ==
  {NoMeta, [server |-> OtherServer], [status |-> "processed"], [status |-> "error"],
   [subprotocol |-> "2.0.0"],
   [server |-> OtherServer, status |-> "processed", subprotocol |-> "2.0.0"]}
\* their types: U is registered nowhere, A has a process callback, B a
\* resend callback too
PreaddTypes == {"A", "B", "U", "logux/subscribe", "logux/unsubscribe"}

\* the nodes that create them: OtherServer has the user `server` too
PreaddOrigins == {NodeA, ServerNode, OtherServer}

PreaddNext ==
  \/ \E type \in PreaddTypes, origin \in PreaddOrigins, meta \in PreaddMetas :
       logAddAction(type, IF IsLogux(type) THEN "ch1" ELSE NotString, origin, meta,
                    MaxActions)
  \/ \E i \in 1..Len(log) : add(i, FALSE)
  \/ \E i \in 1..Len(log) : resendSettled(i, NoResend, FALSE)
  \/ \E i \in 1..Len(log), ok \in BOOLEAN : processSettled(i, ok, FALSE)
  \/ \E i \in 1..Len(log), access \in {"true", "false"} : accessSettled(i, access, FALSE)

PreaddSpec == Init /\ [][PreaddNext]_vars

\* ---------------------------------------------------------------- claims on the fan-out
\* the entries sendAction has been called for
Sent == {i \in DOMAIN log : log[i].sent}
\* the calls of onAdd on client k for entry i
Received(k, i) == Count(clients[k].onAdd, log[i].id)
From(i) == parseId(idNode(log[i].id)).clientId
InSeq(x, s) == \E j \in 1..Len(s) : s[j] = x
\* client k was connected and authenticated when sendAction ran for entry i
\* and nodes, clients or users of the entry name it
Addressed(k, i) ==
  /\ k \in log[i].at.authed
  /\ \/ InSeq(clients[k].nodeId, log[i].nodes)
     \/ InSeq(clients[k].clientId, log[i].clients)
     \/ InSeq(clients[k].userId, log[i].users)
\* the channels of entry i that the node of client k was subscribed to when
\* sendAction ran
SubscribedTo(k, i) ==
  {j \in 1..Len(log[i].channels) :
     /\ log[i].channels[j] \in DOMAIN log[i].at.subscribers
     /\ clients[k].nodeId \in DOMAIN log[i].at.subscribers[log[i].channels[j]]}
Accepting(k, i) ==
  {j \in SubscribedTo(k, i) :
     evalFilter(log[i].at.subscribers[log[i].channels[j]][clients[k].nodeId], log[i].type)}

\* C1: sendAction calls onAdd of a client at most once for an entry.
C1_AtMostOnce == \A i \in DOMAIN log : \A k \in DOMAIN clients : Received(k, i) <= 1

\* a client named twice in nodes, and by clients, users and a subscribed
\* channel of one entry, received it
C1_Witness ==
  \E i \in Sent : \E k \in DOMAIN clients :
    /\ Received(k, i) = 1
    /\ k \in log[i].at.authed
    /\ Count(log[i].nodes, clients[k].nodeId) = 2
    /\ InSeq(clients[k].clientId, log[i].clients)
    /\ InSeq(clients[k].userId, log[i].users)
    /\ Accepting(k, i) # {}

\* C2: sendAction never calls onAdd of a client whose clientId is the one
\* parsed from the ID of the entry.
C2_NotToOriginator ==
  \A i \in DOMAIN log : \A k \in DOMAIN clients :
    clients[k].clientId = From(i) => Received(k, i) = 0

\* an entry named its own originator in users and went to a channel the
\* originator was subscribed to with an accepting filter
C2_Witness ==
  \E i \in Sent : \E k \in DOMAIN clients :
    /\ clients[k].clientId = From(i)
    /\ Addressed(k, i)
    /\ Accepting(k, i) # {}

C5_ZombieEviction ==
  [][\A k \in DOMAIN clients :
       /\ (clients[k].auth = "pending" /\ clients'[k].auth = "ok") =>
            LET n == clients[k].nodeId
                z == Get(nodeIds, n, 0)
            IN (z # 0 /\ z # k /\ ~clients[z].destroyed /\ z \in connected) =>
                 /\ clients'[z].zombie /\ clients'[z].destroyed /\ z \notin connected'
                 /\ reported' = <<Report("zombie", z, n, <<>>),
                                  Report("authenticated", k, n, <<>>)>>
                 /\ nodeIds'[n] = k
                 /\ Count(clients'[z].reports, "disconnect") = 0
       /\ (clients[k].zombie /\ Count(clients[k].reports, "disconnect") = 0)
            => Count(clients'[k].reports, "disconnect") = 0
    ]_vars

\* a live connection has just been evicted by a newer one with its nodeId
C5_Witness ==
  /\ ~destroying
  /\ Len(reported) = 2
  /\ reported[1].name = "zombie" /\ reported[2].name = "authenticated"
  /\ reported[1].node = reported[2].node
  /\ clients[reported[1].key].zombie /\ clients[reported[1].key].destroyed
  /\ Count(clients[reported[1].key].reports, "authenticated") = 1
  /\ Count(clients[reported[1].key].reports, "disconnect") = 0
  /\ nodeIds[reported[2].node] = reported[2].key

Done == {i \in DOMAIN log : log[i].pc = "done"}
Has(i, ev) == Count(log[i].trace, ev) > 0
\* the callbacks of kind ev started for entry i by this step
Started(i, ev) == Count(log'[i].trace, ev) - Count(log[i].trace, ev)

\* C7: the promise of destroy() resolves only in a step after which the
\* counter of in-flight process callbacks is zero.
C7_DestroyWaitsForProcessing ==
  [][(destroyed # "resolved" /\ destroyed' = "resolved") => processing' = 0]_vars

\* destroy() was called while a process callback was in flight, and its
\* promise is still pending
C7_Witness == destroyed = "waiting" /\ processing > 0 /\ destroying

\* C8: once destroy() has been called no resend and no process callback is
\* started any more, whatever handler was suspended at that moment.
C8_NoCallbackAfterDestroy ==
  [][destroying => \A i \in DOMAIN log :
                     Started(i, "cb:resend") = 0 /\ Started(i, "cb:process") = 0]_vars

\* C9 as stated: a waiting non-logux action ends with a processed event or
\* with an error event and a logux/undo, never both and never neither.
C9_ExactlyOneOutcome ==
  \A i \in Done :
    (~IsLogux(log[i].type) /\ log[i].atAdd = "waiting")
      => (Has(i, "on:processed") # (Has(i, "on:error") /\ Has(i, "undo")))

\* C9 amended: a waiting non-logux action ends in one of four ways. The
\* server is destroying: nothing fires. The type has no processor: no
\* processed and no error event, the status becomes error. The resend callback
\* throws: one logux/undo and an error event, no processed event. Otherwise
\* exactly one processed event fires; when the process callback throws, an
\* error event and one logux/undo come with it, and no logux/undo otherwise.
C9_Outcomes ==
  \A i \in Done :
    (~IsLogux(log[i].type) /\ log[i].atAdd = "waiting") =>
      LET t == log[i].trace
          threw == Has(i, "cb:process") /\ ~Has(i, "processed")
      IN \/ t = <<"add">>
         \/ /\ Has(i, "unknownType")
            /\ ~Has(i, "on:processed") /\ ~Has(i, "on:error")
            /\ log[i].status = "error"
         \/ /\ Has(i, "cb:resend") /\ ~Has(i, "useless") /\ ~log[i].sent
            /\ Count(t, "undo") = 1 /\ Has(i, "on:error") /\ ~Has(i, "on:processed")
         \/ /\ Count(t, "on:processed") = 1 /\ log[i].sent
            /\ threw => (Count(t, "undo") = 1 /\ Has(i, "on:error"))
            /\ ~threw => Count(t, "undo") = 0

\* a process callback threw: the error event, the undo and the processed
\* event all fired for the entry
C9_Witness ==
  \E i \in Done : /\ log[i].atAdd = "waiting" /\ Has(i, "cb:process")
                  /\ Has(i, "on:error") /\ Has(i, "undo") /\ Has(i, "on:processed")

\* ---------------------------------------------------------------- claims on subscriptions
\* the logux/undo entries with the given reason added for entry i
Undos(i, reason) ==
  Cardinality({j \in DOMAIN log : /\ log[j].type = "logux/undo"
                                  /\ log[j].ref = log[i].id /\ log[j].reason = reason})
\* the logux/processed entries added for entry i
Processeds(i) ==
  Cardinality({j \in DOMAIN log : log[j].type = "logux/processed" /\ log[j].ref = log[i].id})
\* the subscriptions whose handler has finished after access was called
Subscriptions == {i \in Done : log[i].type = "logux/subscribe" /\ Has(i, "cb:access")}
HasEntry(i) ==
  /\ log[i].channel \in DOMAIN subscribers
  /\ idNode(log[i].id) \in DOMAIN subscribers[log[i].channel]

C10_Cases ==
  \A i \in Subscriptions :
    /\ (Has(i, "access:true") /\ ~Has(i, "on:subscriptionCancelled") /\ ~Has(i, "throw")) =>
         /\ Count(log[i].trace, "on:subscribed") = 1 /\ Processeds(i) = 1
         /\ Undos(i, "error") = 0 /\ Undos(i, "denied") = 0
    /\ (Has(i, "access:true") /\ Has(i, "on:subscriptionCancelled")) =>
         /\ ~Has(i, "on:subscribed") /\ Processeds(i) = 0 /\ ~log[i].subscribed
         /\ Undos(i, "error") = 0 /\ Undos(i, "denied") = 0
    /\ (Has(i, "access:true") /\ Has(i, "throw")) =>
         /\ ~Has(i, "on:subscribed") /\ Undos(i, "error") = 1
         /\ Processeds(i) = IF log[i].subscribed THEN 1 ELSE 0
    /\ Has(i, "access:false") =>
         /\ Count(log[i].trace, "denied") = 1 /\ Undos(i, "denied") = 1
         /\ ~Has(i, "on:subscribed") /\ Processeds(i) = 0 /\ ~log[i].subscribed

Subscribed(ch, n) == ch \in DOMAIN subscribers /\ n \in DOMAIN subscribers[ch]
\* the entries of the log about channel ch that node n created
Of(ch, n) == {i \in DOMAIN log : log[i].channel = ch /\ idNode(log[i].id) = n}
\* no channel key maps to an empty set of subscribers
NoEmptyChannel == \A ch \in DOMAIN subscribers : DOMAIN subscribers[ch] # {}
\* a connection with node ID n has destroy() called in this step
Destroying(n) ==
  \E k \in DOMAIN clients :
    /\ clients[k].nodeId = n
    /\ clients'[k].destroyed
    /\ \/ ~clients[k].destroyed
       \/ redestroyed' # redestroyed
       \/ ~clients[k].zombie /\ clients'[k].zombie

C12_OnlyConnected ==
  \A ch \in Channels, n \in ClientNodes :
    Subscribed(ch, n) =>
      \E k \in connected : clients[k].nodeId = n /\ ~clients[k].destroyed

\* ---------------------------------------------------------------- claims on the indexes
\* the keys of the clients listed for a user
UserKeys(u) == {userIds[u][j] : j \in 1..Len(userIds[u])}
Disconnects(k) == Count(clients[k].reports, "disconnect")

\* C13: every entry of nodeIds, clientIds, userIds and connected refers to a
\* client that is not destroyed, and a nodeIds entry refers to a client that
\* authenticated under that node ID.
C13_IndexesOfLiveClients ==
  /\ \A n \in DOMAIN nodeIds :
       /\ ~clients[nodeIds[n]].destroyed
       /\ clients[nodeIds[n]].auth = "ok" /\ clients[nodeIds[n]].nodeId = n
  /\ \A c \in DOMAIN clientIds : ~clients[clientIds[c]].destroyed
  /\ \A u \in DOMAIN userIds : \A k \in UserKeys(u) : ~clients[k].destroyed
  /\ \A k \in connected : ~clients[k].destroyed

\* C14: a client that authenticated and was neither destroyed nor evicted
\* as zombie is the nodeIds entry of its node ID.
C14_StaysRegistered ==
  \A k \in DOMAIN clients :
    (clients[k].auth = "ok" /\ ~clients[k].destroyed /\ ~clients[k].zombie)
      => (clients[k].nodeId \in DOMAIN nodeIds /\ nodeIds[clients[k].nodeId] = k)

\* C15: a destroy() of an already destroyed client changes no index and
\* reports nothing, and each connection is reported disconnected at most once.
C15_DestroyIdempotent ==
  [][/\ redestroyed' # redestroyed =>
          /\ UNCHANGED <<nodeIds, clientIds, userIds, connected, subscribers>>
          /\ reported' = <<>>
     /\ \A k \in DOMAIN clients : Count(clients'[k].reports, "disconnect") <= 1
    ]_vars

\* C16: from the call of the server's destroy() on no `disconnect` report is
\* made; the call itself reports only `destroy` and leaves no client in
\* connected, every client being destroyed.
C16_NoDisconnectOnShutdown ==
  [][/\ destroying' =>
          \A k \in DOMAIN clients : Count(clients'[k].reports, "disconnect") = Disconnects(k)
     /\ (~destroying /\ destroying') =>
          /\ reported' = <<Report("destroy", 0, Undefined, <<>>)>>
          /\ connected' = {}
          /\ \A k \in connected : clients'[k].destroyed /\ ~clients'[k].connected
    ]_vars

\* the server was destroyed with an authenticated client connected: the
\* client is destroyed and gone, its disconnect was not reported
C16_Witness ==
  /\ destroying /\ connected = {}
  /\ reported = <<Report("destroy", 0, Undefined, <<>>)>>
  /\ \E k \in DOMAIN clients :
       /\ clients[k].reports = <<"connect", "authenticated">>
       /\ clients[k].destroyed /\ ~clients[k].zombie

\* ---------------------------------------------------------------- claims on received actions
\* the entries with the given ID whose add event was observed
Added(id) == {i \in DOMAIN log : log[i].id = id /\ Has(i, "add")}
\* the denials reported by the step
Denials == {n \in 1..Len(reported') : reported'[n].name = "denied"}
\* the step appended exactly one entry to the log
Appended == Len(log') = Len(log) + 1 /\ SubSeq(log', 1, Len(log)) = log
\* the step added the logux/undo of a denial of id
UndoAdded(id) ==
  /\ Appended
  /\ log'[Len(log')].type = "logux/undo"
  /\ log'[Len(log')].ref = id /\ log'[Len(log')].reason = "denied"
\* the creator named in id is node n or a node of the client of n
SameClient(id, n) ==
  idNode(id) = n \/ parseId(idNode(id)).clientId = parseId(n).clientId
\* the meta keys a client may set
Whitelist == {"id", "time", "subprotocol"}

C18_DeniedIsUndone ==
  [][\A n \in Denials :
       /\ Cardinality(Denials) = 1
       /\ UndoAdded(reported'[n].id)
       /\ \A i \in DOMAIN log' : log'[i].id # reported'[n].id
    ]_vars

\* C19: every action a client got into the log names as its creator the
\* node of an authenticated client or another node of such a client.
C19_CreatorOfSameClient ==
  \A i \in DOMAIN log :
    log[i].ref = <<>> =>
      \E k \in DOMAIN clients :
        clients[k].auth = "ok" /\ SameClient(log[i].id, clients[k].nodeId)

\* C20: an action admitted to the log came without the `status` key, and an
\* action of the client's own creator whose meta keys are all of id, time
\* and subprotocol is denied only by the access callback, that is together
\* with its logux/undo.
C20_MetaWhitelist ==
  [][/\ (Appended /\ log'[Len(log')].ref = <<>>) => log'[Len(log')].status # "processed"
     /\ \A n \in Denials :
          (/\ reported'[n].keys \subseteq Whitelist
           /\ SameClient(reported'[n].id, reported'[n].node))
            => UndoAdded(reported'[n].id)
    ]_vars

\* ---------------------------------------------------------------- claims on the server user
\* connection k is listed in an index
Indexed(k) ==
  \/ \E n \in DOMAIN nodeIds : nodeIds[n] = k
  \/ \E c \in DOMAIN clientIds : clientIds[c] = k
  \/ \E u \in DOMAIN userIds : k \in UserKeys(u)

\* C21: a connection that presented a node ID of the user `server` is not
\* authenticated, is not reported `authenticated` and is in no index.
C21_ServerUserRejected ==
  \A k \in DOMAIN clients :
    (clients[k].nodeId # Undefined /\ parseId(clients[k].nodeId).userId = "server") =>
      /\ clients[k].auth # "ok"
      /\ Count(clients[k].reports, "authenticated") = 0
      /\ ~Indexed(k)

\* ---------------------------------------------------------------- claims on the pipeline's steps
\* the entries the step appended to the log
New == (DOMAIN log') \ (DOMAIN log)
\* the logux/processed entries the step added for entry i
NewProcessed(i) ==
  {j \in New : log'[j].type = "logux/processed" /\ log'[j].ref = log[i].id}
\* the logux/undo entries the step added for entry i
NewUndo(i) == {j \in New : log'[j].type = "logux/undo" /\ log'[j].ref = log[i].id}

\* C22: the step that sets the status of an entry to `processed` adds, for
\* an ID whose user is not `server`, exactly one logux/processed with that
\* ID, addressed to the client of the ID and stored as processed, and for
\* an ID of the server none; a logux/processed is added by such a step only.
C22_MarkAsProcessed ==
  [][/\ \A i \in DOMAIN log :
          (log[i].status # "processed" /\ log'[i].status = "processed") =>
            LET data == parseId(idNode(log[i].id))
            IN IF data.userId # "server"
               THEN /\ Cardinality(NewProcessed(i)) = 1
                    /\ \A j \in NewProcessed(i) :
                         /\ log'[j].clients = <<data.clientId>>
                         /\ log'[j].status = "processed"
               ELSE NewProcessed(i) = {}
     /\ \A j \in New :
          log'[j].type = "logux/processed" =>
            \E i \in DOMAIN log : j \in NewProcessed(i) /\ log'[i].status = "processed"
    ]_vars

\* an action of the server and an action of a client were both processed:
\* only the client's action has a logux/processed
C22_Witness ==
  /\ \E i \in DOMAIN log :
       /\ idNode(log[i].id) = ServerNode /\ Has(i, "processed")
       /\ log[i].status = "processed" /\ Processeds(i) = 0
  /\ \E i \in DOMAIN log :
       /\ idNode(log[i].id) = NodeA /\ Has(i, "processed")
       /\ log[i].status = "processed" /\ Processeds(i) = 1

\* ---------------------------------------------------------------- claims on preadd
\* the entries whose add event is still to come: their meta is the one
\* preadd left
Fresh == {i \in DOMAIN log : log[i].pc = "add"}
\* preadd's answers about server and subprotocol for entry i
ServerAndSubprotocol(i) ==
  LET e == log[i]
      g == e.given
  IN /\ e.server = Get(g, "server", ServerNode)
     /\ IsLogux(e.type) => e.status = Get(g, "status", "none")
     /\ e.subprotocol = IF idNode(e.id) = ServerNode THEN Get(g, "subprotocol", Subprotocol)
                        ELSE Get(g, "subprotocol", "none")
\* the server created entry i and has no processor for its type
Unprocessable(i) ==
  /\ idNode(log[i].id) = ServerNode
  /\ ~Backend /\ log[i].type \notin DOMAIN types
  /\ getRegexProcessor(log[i].type) = NoProcessor

ProcessedAtAdd == {i \in DOMAIN log : Has(i, "add") /\ log[i].atAdd = "processed"}
\* entry i was given to no callback of a processor and nothing was added
\* for it
NotDispatched(i) ==
  /\ ~Has(i, "cb:resend") /\ ~Has(i, "cb:process") /\ ~Has(i, "unknownType")
  /\ \A j \in DOMAIN log : log[j].ref # log[i].id
IsSubscription(i) == log[i].type \in {"logux/subscribe", "logux/unsubscribe"}

\* C24 as stated: no action that had the status `processed` at its add
\* event is given to resend or process or to the unknown type handler, and
\* no logux/processed or logux/undo is added for it.
C24_ProcessedNotDispatched == \A i \in ProcessedAtAdd : NotDispatched(i)

\* C24: the same for every action that is not a logux/subscribe or
\* logux/unsubscribe.
C24_ProcessedTypeNotDispatched ==
  \A i \in ProcessedAtAdd : ~IsSubscription(i) => NotDispatched(i)

\* an action of type B (resend and process callbacks) came with the status
\* processed and its add handler finished with the finally callback
C24_Witness ==
  \E i \in ProcessedAtAdd \cap Done :
    /\ log[i].type = "B" /\ idNode(log[i].id) = NodeA
    /\ Has(i, "on:processed") /\ Has(i, "cb:finally")

\* ---------------------------------------------------------------- claims on unknown types
\* the finished entries that were waiting at their add event and have no
\* processor: no type, no regex type, no otherType
Unknown ==
  {i \in Done : /\ Has(i, "add") /\ log[i].atAdd = "waiting" /\ ~IsSubscription(i)
                /\ getProcessor(log[i].type, otherProcessor) = NoProcessor}
AllUndos(i) == {j \in DOMAIN log : log[j].type = "logux/undo" /\ log[j].ref = log[i].id}

Settles(i) == log[i].pc = "process" /\ log'[i].pc = "done"
\* the finished entries whose process callback threw
Threw == {i \in Done : Has(i, "cb:process") /\ ~Has(i, "processed")}

\* C26: the step in which a process callback throws sets the status to
\* `error`, adds one logux/undo with the reason error and no
\* logux/processed, emits the error event and leaves every connection as it
\* was; afterwards the action has that one logux/undo and no
\* logux/processed.
C26_ProcessThrows ==
  [][/\ \A i \in DOMAIN log :
          (Settles(i) /\ Started(i, "processed") = 0) =>
            /\ log'[i].status = "error"
            /\ Cardinality(NewUndo(i)) = 1
            /\ \A j \in NewUndo(i) : log'[j].reason = "error"
            /\ NewProcessed(i) = {}
            /\ Started(i, "on:error") >= 1
            /\ UNCHANGED <<clients, connected, nodeIds, clientIds, userIds>>
     /\ \A i \in DOMAIN log' :
          (log'[i].pc = "done" /\ Count(log'[i].trace, "cb:process") > 0
             /\ Count(log'[i].trace, "processed") = 0) =>
            /\ \A j \in DOMAIN log' :
                 log'[j].ref = log'[i].id =>
                   log'[j].type = "logux/undo" /\ log'[j].reason = "error"
            /\ log'[i].status = "error"
    ]_vars

\* the process callback threw for the action of a client: the action is
\* undone and the client is still connected
C26_Witness ==
  \E i \in Threw : \E k \in connected :
    /\ clients[k].nodeId = idNode(log[i].id)
    /\ clients[k].auth = "ok" /\ clients[k].connected /\ ~clients[k].destroyed
    /\ log[i].status = "error" /\ Has(i, "on:error")
    /\ Undos(i, "error") = 1 /\ Processeds(i) = 0

\* the step emits the processed event for entry i, turns its status to
\* processed or adds its logux/processed
Completes(i) ==
  \/ Started(i, "on:processed") > 0
  \/ log[i].status # "processed" /\ log'[i].status = "processed"
  \/ NewProcessed(i) # {}

\* C27: for an action given to a process callback, the processed event,
\* the status `processed` and the logux/processed come in the step in which
\* that callback settles, not before; for an action whose processor has no
\* process callback they come in the add handler, which ends with them.
C27_ProcessedAfterProcess ==
  [][\A i \in DOMAIN log :
       (~IsLogux(log[i].type) /\ Completes(i)) =>
         IF Count(log'[i].trace, "cb:process") > 0 THEN Settles(i)
         ELSE log[i].pc \in {"add", "resend", "changeMeta"} /\ log'[i].pc = "done"
    ]_vars

\* an action with a process callback and one whose processor has none were
\* both answered with a logux/processed
C27_Witness ==
  /\ \E i \in Done : /\ log[i].type = "A" /\ Has(i, "cb:process") /\ Has(i, "on:processed")
                     /\ log[i].status = "processed" /\ Processeds(i) = 1
  /\ \E i \in Done : /\ log[i].type = "C" /\ ~Has(i, "cb:process") /\ Has(i, "on:processed")
                     /\ log[i].status = "processed" /\ Processeds(i) = 1

\* ---------------------------------------------------------------- claims on process()
\* the error and processed events of entry e in their order
Events(e) == SelectSeq(e.trace, LAMBDA ev : ev \in {"on:error", "on:processed"})
\* the actions added by process()
Promised == {i \in DOMAIN log : log[i].promise # "none"}

\* C28: the step of process() adds the action to the log with a pending
\* promise; the promise is pending while no error or processed event of that
\* action was emitted, and afterwards it is what the first of these events
\* made it, rejected by error and resolved by processed, whatever events of
\* this and other actions follow.
C28_ProcessPromise ==
  [][/\ \A i \in DOMAIN log' :
          log'[i].promise # "none" =>
            log'[i].promise =
              IF Events(log'[i]) = <<>> THEN "pending"
              ELSE IF Head(Events(log'[i])) = "on:error" THEN "rejected" ELSE "resolved"
     /\ \A i \in DOMAIN log : log'[i].promise # log[i].promise => log[i].promise = "pending"
     /\ \A j \in New : log'[j].promise = "pending" => Appended /\ log'[j].ref = <<>>
    ]_vars

\* one promise was rejected by the error of a process callback and saw the
\* processed event afterwards, another was resolved by its processed event
C28_Witness ==
  /\ \E i \in Promised :
       /\ log[i].promise = "rejected" /\ Has(i, "cb:process")
       /\ Events(log[i]) = <<"on:error", "on:processed">>
  /\ \E i \in Promised : log[i].promise = "resolved" /\ Head(Events(log[i])) = "on:processed"

\* ---------------------------------------------------------------- claims on channel matching
\* the subscriptions this server handled
Handled ==
  {i \in DOMAIN log : /\ log[i].type = "logux/subscribe" /\ Has(i, "add")
                      /\ log[i].server = ServerNode}
\* the places in subscribeAction's list of the definitions that match the
\* channel of entry i
Matching(i) ==
  {n \in 1..Len(subscribeChannels) : log[i].channel \in subscribeChannels[n].matches}

\* C29: a subscription is handled by the first definition that matches its
\* channel, in the order of registration with the otherChannel definition
\* last: one access callback is called, and filter, load and finally are
\* called only if that definition has them.
C29_FirstMatch ==
  \A i \in Handled :
    /\ Count(log[i].trace, "cb:access") <= 1
    /\ Has(i, "cb:access") =>
         /\ log[i].def \in Matching(i)
         /\ \A n \in Matching(i) : log[i].def <= n
         /\ (\E n \in Matching(i) : n <= Len(channels)) => log[i].def <= Len(channels)
         /\ Has(i, "cb:filter") => subscribeChannels[log[i].def].filter
         /\ Has(i, "cb:load") => subscribeChannels[log[i].def].load
         /\ Has(i, "cb:finally") => subscribeChannels[log[i].def].finally

\* with otherChannel set, a subscription to ch1, which all three
\* definitions match, ran with the first one (no filter, load, finally), and
\* a subscription to ch3 ran with the otherChannel definition
C29_Witness ==
  /\ otherSubscriber = OtherChannel
  /\ \E i \in Handled \cap Done :
       /\ log[i].channel = "ch1" /\ Cardinality(Matching(i)) = 3 /\ log[i].def = 1
       /\ Has(i, "on:subscribed")
       /\ ~Has(i, "cb:filter") /\ ~Has(i, "cb:load") /\ ~Has(i, "cb:finally")
  /\ \E i \in Handled \cap Done :
       /\ log[i].channel = "ch3" /\ log[i].def = Len(channels) + 1
       /\ Has(i, "cb:finally")

Fails(i) ==
  /\ log[i].type = "logux/subscribe"
  /\ log[i].pc \in {"access", "filter", "load"} /\ log'[i].pc = "done"
  /\ Started(i, "throw") = 1
\* the subscribers without the entry of node n for channel ch
Others(subs, ch, n) ==
  [c \in DOMAIN subs |-> IF c = ch THEN Without(subs[c], n) ELSE subs[c]]
\* the step emits the error event and adds the one logux/undo of the error
ErrorReported(i) ==
  /\ Started(i, "on:error") = 1
  /\ Cardinality(NewUndo(i)) = 1
  /\ \A j \in NewUndo(i) : log'[j].reason = "error"
\* the step leaves the entries of all other nodes and channels as they were
OthersUntouched(i) ==
  LET ch == log[i].channel
      n == idNode(log[i].id)
      before == Others(subscribers, ch, n)
      after == Others(subscribers', ch, n)
  IN /\ \A c \in (DOMAIN before) \cup (DOMAIN after) :
          Get(before, c, <<>>) = Get(after, c, <<>>)
\* subscribers' has no entry of the node of entry i for its channel
NoEntryAfter(i) ==
  log[i].channel \in DOMAIN subscribers' =>
    idNode(log[i].id) \notin DOMAIN subscribers'[log[i].channel]

\* C31 as stated: when access, filter or load throws, the error event is
\* emitted, a logux/undo with the reason error is added, subscribers has no
\* entry of that node for that channel afterwards, and the entries of
\* other nodes are untouched.
C31_FailureLeavesNoEntry ==
  [][\A i \in DOMAIN log :
       Fails(i) => ErrorReported(i) /\ NoEntryAfter(i) /\ OthersUntouched(i)
    ]_vars

\* C31: when access, filter or load throws, the error event is emitted
\* and a logux/undo with the reason error is added; if the subscription
\* had recorded its entry, the node has no entry for the channel
\* afterwards, otherwise subscribers is unchanged; the entries of other
\* nodes are untouched in both cases.
C31_FailureUnsubscribes ==
  [][\A i \in DOMAIN log :
       Fails(i) =>
         /\ ErrorReported(i)
         /\ OthersUntouched(i)
         /\ IF log[i].subscribed THEN NoEntryAfter(i) ELSE subscribers' = subscribers
    ]_vars

\* load threw for a subscription that had recorded its entry: the entry
\* is gone while another node is still subscribed to the channel
C31_Witness ==
  \E i \in Done :
    /\ log[i].type = "logux/subscribe" /\ log[i].subscribed
    /\ Has(i, "cb:load") /\ Has(i, "throw") /\ Has(i, "on:error")
    /\ Undos(i, "error") = 1
    /\ log[i].channel \in DOMAIN subscribers
    /\ idNode(log[i].id) \notin DOMAIN subscribers[log[i].channel]
    /\ DOMAIN subscribers[log[i].channel] # {}

\* ---------------------------------------------------------------- claims on logux/unsubscribe
\* the step handles the logux/unsubscribe of entry i for a string channel
Unsubscribes(i) ==
  /\ log[i].type = "logux/unsubscribe" /\ log[i].channel # NotString
  /\ log[i].server = ServerNode /\ ~destroying
  /\ log[i].pc = "add" /\ log'[i].pc = "done"

\* C32: a logux/unsubscribe with a string channel emits `unsubscribed` once
\* and marks the action as processed, also when the node was not
\* subscribed; afterwards the node of meta.id has no entry for the channel,
\* and the entries of all other nodes and channels are as before.
C32_Unsubscribe ==
  [][\A i \in DOMAIN log :
       Unsubscribes(i) =>
         /\ Started(i, "on:unsubscribed") = 1
         /\ Started(i, "unsubscribed") = 1
         /\ log'[i].status = "processed"
         /\ Cardinality(NewProcessed(i)) = 1
         /\ NewUndo(i) = {}
         /\ NoEntryAfter(i)
         /\ OthersUntouched(i)
    ]_vars

\* a node that was not subscribed to ch2 has unsubscribed from it while
\* another node stays subscribed to ch2
C32_Witness ==
  \E i \in Done :
    /\ log[i].type = "logux/unsubscribe" /\ log[i].channel = "ch2"
    /\ Has(i, "on:unsubscribed") /\ log[i].status = "processed"
    /\ Processeds(i) = 1
    /\ \A j \in DOMAIN log : log[j].type = "logux/subscribe" => log[j].id[2] # log[i].id[2]
    /\ "ch2" \in DOMAIN subscribers
    /\ DOMAIN subscribers["ch2"] = FailNodes \ {idNode(log[i].id)}

\* ---------------------------------------------------------------- claims on finally
\* the processor or channel definition entry i is dispatched to defines finally
DefinesFinally(i) ==
  IF log[i].type = "logux/subscribe"
  THEN /\ log[i].server = ServerNode /\ log[i].channel # NotString
       /\ matchChannel(log[i].channel) # 0
       /\ subscribeChannels[matchChannel(log[i].channel)].finally
  ELSE /\ log[i].type # "logux/unsubscribe"
       /\ getProcessor(log[i].type, otherProcessor) # NoProcessor
       /\ getProcessor(log[i].type, otherProcessor).finally
\* the calls of the finally callback for entry i
Finallies(t) == Count(t, "cb:finally")
\* the finally callback of entry i threw: the error event follows its call
FinallyThrew(t) ==
  Cardinality({n \in 1..(Len(t) - 1) : t[n] = "cb:finally" /\ t[n + 1] = "on:error"})

\* the logux/undo entries added for the entry of trace t after finally was called
UndoneByFinally(t) ==
  {n \in 1..Len(t) : t[n] = "undo" /\ \E m \in 1..(n - 1) : t[m] = "cb:finally"}

\* C33: the finally callback of the processor of an added action, or of
\* the matched channel of a logux/subscribe, is called at most once, and
\* exactly once by the time the handling has finished, whatever the
\* outcome; when it throws, one more `error` event is emitted and nothing
\* else changes: the handler finishes in the same step, adds no logux/undo
\* for the exception, and an action without a process callback is still
\* marked as processed.
C33_FinallyOnce ==
  [][\A i \in DOMAIN log :
       DefinesFinally(i) =>
         LET t == log'[i].trace
         IN /\ Finallies(t) <= 1
            /\ (log'[i].pc = "done" /\ ~destroying => Finallies(t) = 1)
            /\ Started(i, "cb:finally") = 1 =>
                 /\ log'[i].pc = "done"
                 /\ UndoneByFinally(t) = {}
                 /\ Count(t, "on:error") = Cardinality({j \in DOMAIN log' : log'[j].type = "logux/undo" /\ log'[j].ref = log[i].id /\ log'[j].reason = "error"}) + FinallyThrew(t)
                 /\ (log[i].pc = "process" => processing' = processing - 1 /\ Started(i, "on:processed") = 1)
                 /\ (log[i].pc \in {"add", "changeMeta"} /\ log[i].status = "waiting"
                       /\ log[i].type # "logux/subscribe"
                     => log'[i].status = "processed")
    ]_vars

\* finally threw after a failed process callback and after a denied
\* subscription: each was called once and each entry has its one logux/undo
C33_Witness ==
  /\ \E i \in Done :
       /\ log[i].type = "B" /\ DefinesFinally(i) /\ Has(i, "cb:process")
       /\ Finallies(log[i].trace) = 1 /\ FinallyThrew(log[i].trace) = 1
       /\ Undos(i, "error") = 1 /\ Count(log[i].trace, "on:error") = 2
  /\ \E i \in Done :
       /\ log[i].type = "logux/subscribe" /\ DefinesFinally(i) /\ Has(i, "access:false")
       /\ Finallies(log[i].trace) = 1 /\ FinallyThrew(log[i].trace) = 1
       /\ Undos(i, "denied") = 1 /\ Count(log[i].trace, "on:error") = 1

\* ---------------------------------------------------------------- claims on resend
\* the addressing a resend result stands for, its singular keys made plural
Plural(r) ==
  [channels |-> IF "channel" \in DOMAIN r THEN <<r.channel>> ELSE Get(r, "channels", Undefined),
   users |-> IF "user" \in DOMAIN r THEN <<r.user>> ELSE Get(r, "users", Undefined),
   clients |-> IF "client" \in DOMAIN r THEN <<r.client>> ELSE Get(r, "clients", Undefined),
   nodes |-> IF "node" \in DOMAIN r THEN <<r.node>> ELSE Get(r, "nodes", Undefined)]
\* the keys of the addressing that the resend result r sets
Returned(r) == {k \in DOMAIN Plural(r) : Plural(r)[k] # Undefined}
\* the addressing of an entry
AddressingOf(e) ==
  [channels |-> e.channels, users |-> e.users, clients |-> e.clients, nodes |-> e.nodes]
\* entry i after the step is addressed as r says and otherwise as before
Updated(i, r) ==
  \A k \in DOMAIN Plural(r) :
    AddressingOf(log'[i])[k] =
      IF k \in Returned(r) THEN Plural(r)[k] ELSE AddressingOf(log[i])[k]
\* the connections whose node is subscribed to a channel of entry i after
\* the step, authenticated and of another client than the origin
ResendSubscribers(i) ==
  {k \in DOMAIN clients' :
     /\ k \in log'[i].at.authed
     /\ clients'[k].clientId # From(i)
     /\ \E j \in 1..Len(log'[i].channels) :
          /\ log'[i].channels[j] \in DOMAIN subscribers
          /\ clients'[k].nodeId \in DOMAIN subscribers[log'[i].channels[j]]}

C35_ResendThrows ==
  [][\A i \in DOMAIN log :
       (log[i].pc = "resend" /\ Started(i, "on:error") > 0) =>
         /\ Cardinality(NewUndo(i)) = 1
         /\ \A j \in NewUndo(i) : log'[j].reason = "error"
         /\ Started(i, "on:error") = 1
         /\ log'[i].pc = "done"
         /\ ~log'[i].sent
         /\ \A k \in DOMAIN clients : clients'[k].onAdd = clients[k].onAdd
         /\ Count(log'[i].trace, "cb:process") = 0
         /\ processing' = processing
         /\ log'[i].status = "waiting"
         /\ NewProcessed(i) = {}
         /\ Count(log'[i].trace, "on:processed") = 0
    ]_vars

\* resend threw for an action that names a connected subscriber's channel
\* in its meta: the action is undone and no connection got it
C35_Witness ==
  \E i \in Done :
    /\ log[i].type = "B" /\ Has(i, "cb:resend") /\ Has(i, "on:error")
    /\ Undos(i, "error") = 1 /\ Processeds(i) = 0 /\ ~log[i].sent
    /\ \E k \in DOMAIN clients : clients[k].auth = "ok" /\ clients[k].connected
    /\ \A k \in DOMAIN clients : Received(k, i) = 0

\* ---------------------------------------------------------------- claims on the answers
\* the logux/undo entries of any reason added for entry i
AnyUndos(i) ==
  Cardinality({j \in DOMAIN log : log[j].type = "logux/undo" /\ log[j].ref = log[i].id})

\* C36: for an action ID the server adds at most one logux/undo and at most
\* one logux/processed, and never both.
C36_OneAnswer ==
  \A i \in DOMAIN log : log[i].ref = <<>> => AnyUndos(i) + Processeds(i) <= 1

\* ---------------------------------------------------------------- claims on the processing counter
\* the entries whose process callback has started and not settled, in log ll
InProcess(ll) == {i \in DOMAIN ll : ll[i].pc = "process"}
\* the entries whose process callback has settled, in log ll
Settled(ll) == {i \in DOMAIN ll : ll[i].pc = "done" /\ Count(ll[i].trace, "cb:process") = 1}

\* C37: after every step `processing` is the number of process callbacks
\* that have started and not settled, which is never negative; a step
\* changes it by the callbacks it starts less the callbacks that settle in
\* it, one for each, whether the callback succeeds or fails, and it is
\* zero when no callback is unsettled.
C37_Processing ==
  [][/\ processing' = Cardinality(InProcess(log'))
     /\ processing' >= 0
     /\ processing' - processing =
          Cardinality(InProcess(log') \ InProcess(log))
            - Cardinality(InProcess(log) \ InProcess(log'))
     /\ \A i \in InProcess(log) \ InProcess(log') :
          /\ i \in Settled(log')
          /\ processing' = processing - 1
     /\ (InProcess(log') = {} => processing' = 0)
    ]_vars

\* two process callbacks were started and both have settled, one with
\* success and one with an exception, and the counter is back at zero
C37_Witness ==
  /\ processing = 0
  /\ \E i \in Settled(log) : log[i].status = "processed"
  /\ \E i \in Settled(log) : log[i].status = "error" /\ Undos(i, "error") = 1

\* ---------------------------------------------------------------- claims on the settling of process()
\* C38: every promise of process() settles: once the handling of its
\* action has finished, after which no event of the action is emitted,
\* the promise is resolved or rejected.
C38_ProcessSettles ==
  \A i \in Done : log[i].promise # "pending"

\* ---------------------------------------------------------------- claims on the backend proxy
\* the meta.id that have an entry in the `processing` map of the proxy
Pending == {id \in DOMAIN proxy : proxy[id].processing # "absent"}
\* no step of the proxy is due for id: the request is over and the process
\* phase has finished or will not be called
Quiet(id) ==
  /\ proxy[id].request \in {"ended", "errored", "failed"}
  /\ proxy[id].process # "awaiting" \/ proxy[id].processing = "pending"
  /\ proxy[id].process = "none" => proxy[id].access # "true" \/ destroying

\* C39: the entry of the `processing` map of an action is removed when the
\* backend forbids it or does not know it, when the request fails, and when
\* the process phase completes or fails, so that the map has no entry for
\* an action no step is due for, also when the process phase of an
\* approved action is never called.
C39_NoPendingAtQuiescence ==
  \A id \in DOMAIN proxy : Quiet(id) => id \notin Pending

\* ---------------------------------------------------------------- claims on the bad authentications
\* authAttempts[ip], zero for an absent key
Attempts(f, ip) == IF ip \in DOMAIN f THEN f[ip] ELSE 0

\* C40: before the server is destroyed, after every step authAttempts[ip]
\* is absent or an integer of at least 1, and its value is the number of
\* rememberBadAuth(ip) calls whose timer has not fired; a step changes it
\* by one at most, up with a failure and down with a timer, and the key is
\* deleted when the count would be zero.
C40_AuthAttempts ==
  [][~destroying' =>
       \A ip \in IPs :
         /\ ip \in DOMAIN authAttempts' => authAttempts'[ip] >= 1
         /\ Attempts(authAttempts', ip) = timeouts'[ip]
         /\ Attempts(authAttempts', ip) - Attempts(authAttempts, ip) \in {-1, 0, 1}
         /\ Attempts(authAttempts', ip) - Attempts(authAttempts, ip)
              = timeouts'[ip] - timeouts[ip]
    ]_vars

\* two authentications from ip1 failed and one of the two timers has fired
C40_Witness ==
  /\ ~destroying
  /\ Cardinality({k \in DOMAIN clients : clients[k].ip = "ip1" /\ clients[k].auth = "denied"}) = 2
  /\ "ip1" \in DOMAIN authAttempts /\ authAttempts["ip1"] = 1
  /\ timeouts["ip1"] = 1

====
